---- MODULE Spec2Model ----
(***************************************************************************)
(* Model of the walter-micropython modem driver: the CoAP and socket       *)
(* mixins (walter_modem/mixins/coap.py, walter_modem/mixins/socket.py)     *)
(* running on the command execution engine (ModemCore: command queue,      *)
(* executor, notification dispatcher, per-command timer).                  *)
(*                                                                         *)
(* The mixins are translated from their source.  ModemCore, the queue and  *)
(* the CoAP context state class are not among the source files; they are   *)
(* modelled from the specification (sections 3 to 7) and marked so in the  *)
(* model map.                                                              *)
(***************************************************************************)
EXTENDS Integers, Sequences, FiniteSets, TLC

VARIABLES
    cmds,                   \* accepted commands, in acceptance order (id = index)
    queue,                  \* ids of the not-yet-started commands, head first
    active,                 \* id of the command mid-flight, 0 when none
    elapsed,                \* time units since the active command was SENT
    timeout,                \* the engine's per-command timeout, in time units
    tx,                     \* everything written to the transport, in order
    raw_chunk_size,         \* _parser_data.raw_chunk_size
    coap_context_states,    \* CoAP mirror, one entry per context id
    socket_context_states,  \* socket mirror, a Python tuple (0-based)
    _socket_list,           \* the list of sockets, a Python list (0-based)
    _socket,                \* position in _socket_list of the socket in use, 0 for None
    ret                     \* outcome of the API call made in the last step

vars == <<cmds, queue, active, elapsed, timeout, tx, raw_chunk_size,
          coap_context_states, socket_context_states, _socket_list, _socket,
          ret>>

(***************************************************************************)
(* Bounds of the model.                                                    *)
(***************************************************************************)
QueueCapacity == 2    \* capacity of the command queue
MaxCmds == QueueCapacity + 1   \* commands accepted in one behaviour
MaxTimeout == 1       \* largest engine timeout, in time units
MaxRings == 2         \* ring URCs the model lets arrive for one socket entry

(***************************************************************************)
(* Program constants.                                                      *)
(***************************************************************************)
COAP_MIN_CTX_ID == 0
COAP_MAX_CTX_ID == 2
COAP_MIN_TIMEOUT == 1
COAP_MAX_TIMEOUT == 120
COAP_MIN_BYTES_LENGTH == 0
COAP_MAX_BYTES_LENGTH == 1024
SOCKET_MIN_CTX_ID == 1
SOCKET_MAX_CTX_ID == 6
SOCKET_SEND_MIN_BYTES_LEN == 1
SOCKET_SEND_MAX_BYTES_LEN == 16777216
SOCKET_RECV_MIN_BYTES_LEN == 1
SOCKET_RECV_MAX_BYTES_LEN == 1500
PDP_DEFAULT_CTX_ID == 1
PDP_MIN_CTX_ID == 1
PDP_MAX_CTX_ID == 8

CoapIds == COAP_MIN_CTX_ID..COAP_MAX_CTX_ID

\* WalterModemState result codes used here
OK == "OK"
ERROR == "ERROR"
TIMEOUT == "TIMEOUT"
NO_SUCH_PROFILE == "NO_SUCH_PROFILE"
NO_SUCH_PDP_CONTEXT == "NO_SUCH_PDP_CONTEXT"
NO_FREE_SOCKET == "NO_FREE_SOCKET"
NO_SUCH_SOCKET == "NO_SUCH_SOCKET"
UNSET == "UNSET"    \* rsp.result never assigned (or no rsp supplied)
PASS == "PASS"      \* validation passed, the call goes on to _run_cmd

Min(a, b) == IF a <= b THEN a ELSE b

(***************************************************************************)
(* Lines the tokenizer hands to the dispatcher.  A line is its prefix, the *)
(* identifier embedded in it and up to one further field.                  *)
(***************************************************************************)
Line(pfx, id, n, s) == [pfx |-> pfx, id |-> id, n |-> n, s |-> s]

\* A line whose suffix does not parse: a field that int() turns down, or
\* fields missing
BadLine(pfx) == [pfx |-> pfx, malformed |-> TRUE]
Malformed(line) == "malformed" \in DOMAIN line

P_OK == "OK"
P_PROMPT == "> "
P_COAPCONNECTED == "+SQNCOAPCONNECTED:"
P_COAPERROR == "+SQNCOAP: ERROR"
P_COAPRCV == "+SQNCOAPRCV"
P_COAPCLOSED == "+SQNCOAPCLOSED: "
P_SQNSRING == "+SQNSRING: "
P_SQNSRECV == "+SQNSRECV: "
P_SQNSH == "+SQNSH: "
P_SQNSCFG == "+SQNSCFG: "
P_NOISE == "+CEREG: "

(***************************************************************************)
(* Mirror entries.                                                         *)
(***************************************************************************)
\* WalterModemSocketAcceptAnyRemote
DISABLED == "DISABLED"
REMOTE_RX_ONLY == "REMOTE_RX_ONLY"
REMOTE_RX_AND_TX == "REMOTE_RX_AND_TX"

\* WalterModemCoapCloseCause, and the value of an entry never closed
USER == "USER"
NETWORK == "NETWORK"
NO_CAUSE == "NONE"

ModemSocketContextState ==
    [connected |-> FALSE, configured |-> FALSE, rings |-> <<>>,
     accept_any_remote |-> DISABLED]

ModemSocketRing(ctx_id, length, data) ==
    [ctx_id |-> ctx_id, length |-> length, data |-> data]

ModemCoapContextState == [connected |-> FALSE, cause |-> NO_CAUSE]

\* WalterModemSocketState
FREE == "FREE"
RESERVED == "RESERVED"
CREATED == "CREATED"
OPENED == "OPENED"

\* ModemSocket: the state and the fields the methods modelled here write
\* (mtu, the timeouts and the remote end are carried from the arguments to
\* the command text and are read by nothing else)
ModemSocket(id) ==
    [state |-> FREE, id |-> id, pdp_context_id |-> PDP_DEFAULT_CTX_ID,
     accept_any_remote |-> DISABLED, remote_port |-> 0]

\* [ModemSocket(idx + 1) for idx in range(_SOCKET_MAX_CTX_ID + 1)]: the
\* socket built for idx is at position idx + 1 of the sequence
socket_list_init == [p \in 1..(SOCKET_MAX_CTX_ID + 1) |-> ModemSocket(p)]

\* SocketMixin.__init__: one entry per value of range(MIN, MAX + 1), in a tuple
socket_context_states_init ==
    [i \in 1..(SOCKET_MAX_CTX_ID + 1 - SOCKET_MIN_CTX_ID) |-> ModemSocketContextState]

coap_context_states_init == [k \in CoapIds |-> ModemCoapContextState]

\* Python's t[i] on a tuple held as a 1-based sequence: the position read,
\* 0 when t[i] raises IndexError
PyIndex(t, i) ==
    IF 0 <= i /\ i < Len(t) THEN i + 1
    ELSE IF i < 0 /\ -Len(t) <= i THEN Len(t) + i + 1
    ELSE 0

(***************************************************************************)
(* Commands.                                                               *)
(***************************************************************************)
\* WalterModemCmdType
TX_WAIT == "TX_WAIT"
DATA_TX_WAIT == "DATA_TX_WAIT"

\* Command states of the executor's state machine
PENDING == "PENDING"
SENT == "SENT"
AWAITING_TERMINAL == "AWAITING_TERMINAL"
COMPLETED == "COMPLETED"
FAILED == "FAILED"
TIMED_OUT == "TIMED_OUT"
Terminal == {COMPLETED, FAILED, TIMED_OUT}
MidFlight == {SENT, AWAITING_TERMINAL}

\* The request a mixin hands to _run_cmd: the command (op and the context id
\* in its text), whether an rsp is given, the success and failure prefixes
\* of at_rsp, the command type and whether a complete_handler (with its
\* complete_handler_arg) is given
Cmd(op, ctx_id, rsp, success, failure, cmd_type, handler, arg) ==
    [op |-> op, ctx_id |-> ctx_id, rsp |-> rsp, success |-> success,
     failure |-> failure,
     cmd_type |-> cmd_type, handler |-> handler, arg |-> arg,
     state |-> PENDING, result |-> UNSET, term |-> "",
     chunk |-> 0, sent |-> <<>>, socket_rcv_response |-> <<>>,
     at_cmd |-> <<>>, data |-> [type |-> "None", n |-> 0]]

\* The outcome of an API call as its caller gets it: the value returned and
\* rsp.result.  A call that passes validation suspends its caller ("await");
\* the outcome is handed over when the command reaches a terminal state.
NoRet == [op |-> "", ctx_id |-> 0, rsp |-> FALSE, val |-> "", result |-> UNSET]
Ret(op, ctx_id, rsp, val, result) ==
    [op |-> op, ctx_id |-> ctx_id, rsp |-> rsp, val |-> val, result |-> result]

\* 'if rsp: rsp.result = code; return False'
Reject(op, ctx_id, rsp, code) ==
    Ret(op, ctx_id, rsp, "False", IF rsp THEN code ELSE UNSET)

(***************************************************************************)
(* ModemCoap (mixins/coap.py).                                             *)
(***************************************************************************)
\* Mutant of coap_receive_data_check: the upper end of the range is not tested
coap_receive_data_check_open(ctx_id, length, max_bytes) ==
    IF ctx_id < COAP_MIN_CTX_ID THEN NO_SUCH_PROFILE
    ELSE IF max_bytes < COAP_MIN_BYTES_LENGTH \/ COAP_MAX_BYTES_LENGTH < max_bytes
         THEN ERROR
    ELSE IF length < 0 THEN ERROR
    ELSE PASS

\* Mutants of complete_handler: the update is lost; the result is not tested
complete_handler_lost(states, result, complete_handler_arg) == states

complete_handler_untested(states, result, complete_handler_arg) ==
    [states EXCEPT ![complete_handler_arg].connected = TRUE]

\* coap_context_create.complete_handler
complete_handler(states, result, complete_handler_arg) ==
    IF result = OK
    THEN [states EXCEPT ![complete_handler_arg].connected = TRUE]
    ELSE states

\* Mutant of coap_context_create_check: the upper end of the timeout range
\* is not tested
coap_context_create_check_open(ctx_id, coap_timeout) ==
    IF ctx_id < COAP_MIN_CTX_ID \/ COAP_MAX_CTX_ID < ctx_id THEN NO_SUCH_PROFILE
    ELSE IF coap_timeout < COAP_MIN_TIMEOUT THEN ERROR
    ELSE PASS

\* Mutant of coap_send_check: a negative length is let through
coap_send_check_negative(ctx_id, data, length) ==
    IF ctx_id < COAP_MIN_CTX_ID \/ COAP_MAX_CTX_ID < ctx_id THEN NO_SUCH_PROFILE
    ELSE IF data.type \notin {"None", "bytes", "str"} THEN ERROR
    ELSE IF COAP_MAX_BYTES_LENGTH < (IF length = <<>> THEN data.n ELSE length[1])
         THEN ERROR
    ELSE PASS

\* The argument checks of each method: the result code of the check that
\* rejects the call, PASS when none does
coap_context_create_check(ctx_id, coap_timeout) ==
    IF ctx_id < COAP_MIN_CTX_ID \/ COAP_MAX_CTX_ID < ctx_id THEN NO_SUCH_PROFILE
    ELSE IF coap_timeout < COAP_MIN_TIMEOUT \/ COAP_MAX_TIMEOUT < coap_timeout
         THEN ERROR
    ELSE PASS

coap_context_close_check(ctx_id) ==
    IF ctx_id < COAP_MIN_CTX_ID \/ COAP_MAX_CTX_ID < ctx_id THEN NO_SUCH_PROFILE
    ELSE PASS

\* data is None, bytes/bytearray, str, or an object of another type; n is
\* the number of bytes of the data once encoded; length is <<>> for None and
\* <<n>> for the integer n
NoData == [type |-> "None", n |-> 0]
DataLength(data, length) == IF length = <<>> THEN data.n ELSE length[1]

\* A bytes object is its bytes; a str is its characters (code points); n is
\* what len() gives
Bytes(seq) == [type |-> "bytes", n |-> Len(seq), bytes |-> seq]
Str(chars) == [type |-> "str", n |-> Len(chars), chars |-> chars]

\* str.encode('utf-8'): one to four bytes for a character
Utf8(cp) ==
    IF cp < 128 THEN <<cp>>
    ELSE IF cp < 2048 THEN <<192 + (cp \div 64), 128 + (cp % 64)>>
    ELSE IF cp < 65536
    THEN <<224 + (cp \div 4096), 128 + ((cp \div 64) % 64), 128 + (cp % 64)>>
    ELSE <<240 + (cp \div 262144), 128 + ((cp \div 4096) % 64),
           128 + ((cp \div 64) % 64), 128 + (cp % 64)>>

RECURSIVE Utf8Encode(_)
Utf8Encode(chars) ==
    IF chars = <<>> THEN <<>> ELSE Utf8(Head(chars)) \o Utf8Encode(Tail(chars))

\* 'if isinstance(data, str): data = data.encode('utf-8')'
Encode(data) == IF data.type = "str" THEN Bytes(Utf8Encode(data.chars)) ELSE data

\* The bytes handed to _run_cmd as data
PayloadBytes(data) == IF data.type = "None" THEN <<>> ELSE data.bytes

\* m_type and method as they are formatted into the command
CON == 0
GET == 1

\* Mutant of coap_send_length: the length is taken before the encoding
coap_send_length_chars(data, length) == DataLength(data, length)

\* 'if length is None: length = 0 if data is None else len(data)', after
\* the encoding
coap_send_length(data, length) == DataLength(Encode(data), length)

coap_send_check(ctx_id, data, length) ==
    IF ctx_id < COAP_MIN_CTX_ID \/ COAP_MAX_CTX_ID < ctx_id THEN NO_SUCH_PROFILE
    ELSE IF data.type \notin {"None", "bytes", "str"} THEN ERROR
    ELSE IF coap_send_length(data, length) < COAP_MIN_BYTES_LENGTH
            \/ COAP_MAX_BYTES_LENGTH < coap_send_length(data, length)
         THEN ERROR
    ELSE PASS

coap_receive_data_check(ctx_id, length, max_bytes) ==
    IF ctx_id < COAP_MIN_CTX_ID \/ COAP_MAX_CTX_ID < ctx_id THEN NO_SUCH_PROFILE
    ELSE IF max_bytes < COAP_MIN_BYTES_LENGTH \/ COAP_MAX_BYTES_LENGTH < max_bytes
         THEN ERROR
    ELSE IF length < 0 THEN ERROR
    ELSE PASS

(***************************************************************************)
(* SocketMixin (mixins/socket.py): argument checks and callbacks.          *)
(***************************************************************************)
\* Mutant of socket_close_check: the upper end of the range is not tested
socket_close_check_open(ctx_id) ==
    IF ctx_id < SOCKET_MIN_CTX_ID THEN NO_SUCH_PROFILE ELSE PASS

socket_close_check(ctx_id) ==
    IF ctx_id < SOCKET_MIN_CTX_ID \/ SOCKET_MAX_CTX_ID < ctx_id THEN NO_SUCH_PROFILE
    ELSE PASS

\* data as for coap_send; remote is TRUE when remote_addr or remote_port is
\* given.  INDEX_ERROR: socket_context_states[ctx_id] raises IndexError.
INDEX_ERROR == "IndexError"

\* 'if length is None: length = 0 if data is None else len(data)', after
\* the encoding; a length the caller gives is taken as it is
socket_send_length(data, length) == DataLength(Encode(data), length)

\* rai as it is formatted into the command (the default of socket_send)
NO_INFO == 0

\* utils.modem_string: the text between double quotes
modem_string(a_string) == "\"" \o a_string \o "\""

\* '{}'.format(v): the text of v, 'None' for None; an argument that was not
\* given is <<>>, one that was given is <<v>>
PyFormat(v) == IF v = <<>> THEN "None" ELSE ToString(v[1])

\* The command socket_send hands to _run_cmd
socket_send_at_cmd(ctx_id, data, length, rai, remote_addr, remote_port) ==
    <<"AT+SQNSSENDEXT=", ctx_id, socket_send_length(data, length), rai,
      IF remote_addr # <<>> THEN modem_string(remote_addr[1]) ELSE "",
      PyFormat(remote_port)>>

socket_send_check(states, ctx_id, data, length, remote) ==
    IF ctx_id < SOCKET_MIN_CTX_ID \/ SOCKET_MAX_CTX_ID < ctx_id THEN NO_SUCH_PROFILE
    ELSE IF PyIndex(states, ctx_id) = 0 THEN INDEX_ERROR
    ELSE IF states[PyIndex(states, ctx_id)].accept_any_remote # REMOTE_RX_AND_TX
            /\ remote
         THEN ERROR
    ELSE IF data.type \notin {"None", "bytes", "str"} THEN ERROR
    ELSE IF socket_send_length(data, length) < SOCKET_SEND_MIN_BYTES_LEN
            \/ SOCKET_SEND_MAX_BYTES_LEN < socket_send_length(data, length)
         THEN ERROR
    ELSE PASS

socket_receive_data_check(ctx_id, length, max_bytes) ==
    IF ctx_id < SOCKET_MIN_CTX_ID \/ SOCKET_MAX_CTX_ID < ctx_id THEN NO_SUCH_PROFILE
    ELSE IF max_bytes < SOCKET_RECV_MIN_BYTES_LEN
            \/ SOCKET_RECV_MAX_BYTES_LEN < max_bytes
         THEN ERROR
    ELSE IF length < 0 THEN ERROR
    ELSE PASS

socket_create_check(pdp_context_id) ==
    IF pdp_context_id < PDP_MIN_CTX_ID \/ pdp_context_id > PDP_MAX_CTX_ID
    THEN NO_SUCH_PDP_CONTEXT
    ELSE PASS

\* 'for _socket in self._socket_list: if _socket.state == FREE': the position
\* of the first free socket, 0 when the loop ends without one
FirstFree(list) ==
    IF \E p \in DOMAIN list : list[p].state = FREE
    THEN CHOOSE p \in DOMAIN list :
            /\ list[p].state = FREE
            /\ \A q \in DOMAIN list : q < p => list[q].state # FREE
    ELSE 0

\* Mutant of socket_create_complete_handler: the socket in use, and not the
\* socket of the call, is marked
socket_create_complete_handler_current(list, result, complete_handler_arg) ==
    IF result = OK /\ _socket # 0
    THEN [list EXCEPT ![_socket].state = CREATED]
    ELSE list

\* socket_create.complete_handler; complete_handler_arg is the socket, held
\* here as its position in the list (0: a socket no longer in the list)
socket_create_complete_handler(list, result, complete_handler_arg) ==
    IF result = OK /\ complete_handler_arg # 0
    THEN [list EXCEPT ![complete_handler_arg].state = CREATED]
    ELSE list

\* socket_connect: the socket 'self._socket if socket_id == -1 else
\* self._socket_list[socket_id - 1]' names, as its position in the list;
\* 0 when it is None, -1 when the read raises (the except branch)
socket_connect_socket(list, cur, socket_id) ==
    IF socket_id = -1 THEN cur
    ELSE IF PyIndex(list, socket_id - 1) = 0 THEN -1
    ELSE PyIndex(list, socket_id - 1)

\* 'socket.protocol = protocol' with socket None raises AttributeError
ATTRIBUTE_ERROR == "AttributeError"

\* socket_connect.complete_handler
socket_connect_complete_handler(list, result, complete_handler_arg) ==
    IF result = OK /\ complete_handler_arg # 0
    THEN [list EXCEPT ![complete_handler_arg].state = OPENED]
    ELSE list

(***************************************************************************)
(* ModemCore: the command queue and the executor.                          *)
(***************************************************************************)
\* _run_cmd: enqueue the request, or fail at once when the queue is at
\* capacity; the caller is then suspended until the command is terminal
\* Mutant of QueueFullCond: one command too many is admitted
QueueFullCond_late == Len(queue) > QueueCapacity

QueueFullCond == Len(queue) >= QueueCapacity

QUEUE_FULL == "QUEUE_FULL"

run_cmd(cmd) ==
    IF QueueFullCond
    THEN /\ ret' = Ret(cmd.op, cmd.ctx_id, cmd.rsp, QUEUE_FULL, UNSET)
         /\ UNCHANGED <<cmds, queue>>
    ELSE /\ Len(cmds) < MaxCmds
         /\ cmds' = Append(cmds, cmd)
         /\ queue' = Append(queue, Len(cmds) + 1)
         /\ ret' = Ret(cmd.op, cmd.ctx_id, cmd.rsp, "await", UNSET)

\* What the caller of a finished command resumes with
Outcome(cmd, result) ==
    Ret(cmd.op, cmd.ctx_id, cmd.rsp, IF result = OK THEN "True" ELSE "False",
        IF cmd.rsp THEN result ELSE UNSET)

\* Mutant of StateAfterWrite: no command waits for the prompt
StateAfterWrite_noprompt(cmd) == AWAITING_TERMINAL

\* The state a command enters once its text is written: a prompt-kind
\* command stays SENT until the prompt, any other awaits its terminal line
StateAfterWrite(cmd) ==
    IF cmd.cmd_type = DATA_TX_WAIT THEN SENT ELSE AWAITING_TERMINAL

\* Mutant of StartGuard: the active command is not looked at
StartGuard_any == queue # <<>>

\* Mutant of QueueGet: the newest command is taken
QueueGet_last(q) == [item |-> q[Len(q)], rest |-> SubSeq(q, 1, Len(q) - 1)]

\* The executor takes the head of the queue once no command is active and
\* writes its text; a failed write fails that command only
StartGuard == active = 0 /\ queue # <<>>

QueueGet(q) == [item |-> Head(q), rest |-> Tail(q)]

\* Mutant of StartNext: a failed write fails the queued commands as well
StartNext_flush(write_ok) ==
    /\ StartGuard
    /\ LET c == QueueGet(queue).item IN
       IF write_ok
       THEN /\ queue' = QueueGet(queue).rest
            /\ tx' = Append(tx, <<"cmd", c>>)
            /\ cmds' = [cmds EXCEPT ![c].state = StateAfterWrite(cmds[c])]
            /\ active' = c
            /\ ret' = NoRet
       ELSE /\ queue' = <<>>
            /\ tx' = tx
            /\ cmds' = [d \in DOMAIN cmds |->
                          IF d = c
                          THEN [cmds[d] EXCEPT !.state = FAILED, !.result = ERROR,
                                               !.term = "write"]
                          ELSE IF cmds[d].state = PENDING
                          THEN [cmds[d] EXCEPT !.state = FAILED, !.result = ERROR]
                          ELSE cmds[d]]
            /\ active' = 0
            /\ ret' = Outcome(cmds[c], ERROR)
    /\ elapsed' = 0
    /\ UNCHANGED <<timeout, raw_chunk_size, coap_context_states,
                   socket_context_states, _socket_list, _socket>>

StartNext(write_ok) ==
    /\ StartGuard
    /\ LET c == QueueGet(queue).item IN
       /\ queue' = QueueGet(queue).rest
       /\ IF write_ok
          THEN /\ tx' = Append(tx, <<"cmd", c>>)
               /\ cmds' = [cmds EXCEPT ![c].state = StateAfterWrite(cmds[c])]
               /\ active' = c
               /\ ret' = NoRet
          ELSE /\ tx' = tx
               /\ cmds' = [cmds EXCEPT ![c].state = FAILED, ![c].result = ERROR,
                                       ![c].term = "write"]
               /\ active' = 0
               /\ ret' = Outcome(cmds[c], ERROR)
    /\ elapsed' = 0
    /\ UNCHANGED <<timeout, raw_chunk_size, coap_context_states,
                   socket_context_states, _socket_list, _socket>>

\* The active command reaches a terminal state: its completion callback runs
\* with the result and its argument, then the caller is resumed
Finish(c, state, result, term) ==
    /\ cmds' = [cmds EXCEPT ![c].state = state, ![c].result = result,
                            ![c].term = term]
    /\ coap_context_states' =
          IF cmds[c].handler /\ cmds[c].op = "coap_context_create"
          THEN complete_handler(coap_context_states, result, cmds[c].arg)
          ELSE coap_context_states
    /\ _socket_list' =
          IF cmds[c].handler /\ cmds[c].op = "socket_create"
          THEN socket_create_complete_handler(_socket_list, result, cmds[c].arg)
          ELSE IF cmds[c].handler /\ cmds[c].op = "socket_connect"
          THEN socket_connect_complete_handler(_socket_list, result, cmds[c].arg)
          ELSE _socket_list
    /\ active' = 0
    /\ ret' = Outcome(cmds[c], result)

\* Mutant of Match: every prefix of at_rsp ends the command as a success
Match_all_success(cmd, line) ==
    IF line.pfx \in cmd.failure \cup cmd.success THEN COMPLETED ELSE ""

\* The terminal state a line gives the active command: failure prefixes are
\* tried first, then success prefixes; "" when the line matches neither
Match(cmd, line) ==
    IF line.pfx \in cmd.failure THEN FAILED
    ELSE IF line.pfx \in cmd.success THEN COMPLETED
    ELSE ""

\* Mutant of TimeoutGuard: the deadline is seen a unit early
TimeoutGuard_early == active # 0 /\ elapsed + 1 >= timeout

\* The per-command timer, running from SENT
TimeoutGuard == active # 0 /\ elapsed >= timeout

Tick ==
    /\ active # 0
    /\ ~TimeoutGuard
    /\ elapsed' = elapsed + 1
    /\ ret' = NoRet
    /\ UNCHANGED <<cmds, queue, active, timeout, tx, raw_chunk_size,
                   coap_context_states, socket_context_states, _socket_list,
                   _socket>>

\* Mutant of Timeout: the deadline passes and the command is left as it is
Timeout_lost == TimeoutGuard /\ UNCHANGED vars

Timeout ==
    /\ TimeoutGuard
    /\ Finish(active, TIMED_OUT, TIMEOUT, "timer")
    /\ UNCHANGED <<queue, elapsed, timeout, tx, raw_chunk_size,
                   socket_context_states, _socket>>

(***************************************************************************)
(* The public methods of ModemCoap.                                        *)
(***************************************************************************)
EngineRest == <<active, elapsed, timeout, tx, coap_context_states,
                socket_context_states, _socket_list, _socket>>

coap_context_create(ctx_id, coap_timeout, rsp) ==
    LET check == coap_context_create_check(ctx_id, coap_timeout) IN
    /\ IF check # PASS
       THEN /\ ret' = Reject("coap_context_create", ctx_id, rsp, check)
            /\ UNCHANGED <<cmds, queue>>
       ELSE run_cmd(Cmd("coap_context_create", ctx_id, rsp, {P_COAPCONNECTED},
                        {P_COAPERROR}, TX_WAIT, TRUE, ctx_id))
    /\ UNCHANGED <<EngineRest, raw_chunk_size>>

coap_context_close(ctx_id, rsp) ==
    LET check == coap_context_close_check(ctx_id) IN
    /\ IF check # PASS
       THEN /\ ret' = Reject("coap_context_close", ctx_id, rsp, check)
            /\ UNCHANGED <<cmds, queue>>
       ELSE run_cmd(Cmd("coap_context_close", ctx_id, rsp, {P_OK}, {}, TX_WAIT,
                        FALSE, 0))
    /\ UNCHANGED <<EngineRest, raw_chunk_size>>

coap_send(ctx_id, m_type, method, data, length, rsp) ==
    LET check == coap_send_check(ctx_id, data, length) IN
    /\ IF check # PASS
       THEN /\ ret' = Reject("coap_send", ctx_id, rsp, check)
            /\ UNCHANGED <<cmds, queue>>
       ELSE run_cmd([Cmd("coap_send", ctx_id, rsp, {P_OK}, {}, DATA_TX_WAIT,
                         FALSE, 0)
                        EXCEPT !.at_cmd = <<"AT+SQNCOAPSEND=", ctx_id, m_type, method,
                                            coap_send_length(data, length)>>,
                               !.data = Encode(data)])
    /\ UNCHANGED <<EngineRest, raw_chunk_size>>

\* Mutant of coap_receive_data: the chunk size is set before the checks
coap_receive_data_early(ctx_id, length, max_bytes, rsp) ==
    LET check == coap_receive_data_check(ctx_id, length, max_bytes) IN
    /\ raw_chunk_size' = Min(length, max_bytes)
    /\ IF check # PASS
       THEN /\ ret' = Reject("coap_receive_data", ctx_id, rsp, check)
            /\ UNCHANGED <<cmds, queue>>
       ELSE run_cmd([Cmd("coap_receive_data", ctx_id, rsp, {P_COAPRCV}, {},
                         TX_WAIT, FALSE, 0)
                        EXCEPT !.chunk = Min(length, max_bytes)])
    /\ UNCHANGED EngineRest

coap_receive_data(ctx_id, length, max_bytes, rsp) ==
    LET check == coap_receive_data_check(ctx_id, length, max_bytes) IN
    /\ IF check # PASS
       THEN /\ ret' = Reject("coap_receive_data", ctx_id, rsp, check)
            /\ UNCHANGED <<cmds, queue, raw_chunk_size>>
       ELSE /\ raw_chunk_size' = Min(length, max_bytes)
            /\ run_cmd([Cmd("coap_receive_data", ctx_id, rsp, {P_COAPRCV}, {},
                            TX_WAIT, FALSE, 0)
                           EXCEPT !.chunk = Min(length, max_bytes)])
    /\ UNCHANGED EngineRest

(***************************************************************************)
(* The public methods of SocketMixin.                                      *)
(***************************************************************************)
SocketRest == <<active, elapsed, timeout, tx, coap_context_states,
                socket_context_states>>

socket_close(ctx_id, rsp) ==
    LET check == socket_close_check(ctx_id) IN
    /\ IF check # PASS
       THEN /\ ret' = Reject("socket_close", ctx_id, rsp, check)
            /\ UNCHANGED <<cmds, queue>>
       ELSE run_cmd(Cmd("socket_close", ctx_id, rsp, {P_OK}, {}, TX_WAIT,
                        FALSE, 0))
    /\ UNCHANGED <<SocketRest, raw_chunk_size, _socket_list, _socket>>

socket_send(ctx_id, data, length, remote_addr, remote_port, rsp) ==
    LET check == socket_send_check(socket_context_states, ctx_id, data, length,
                                   remote_addr # <<>> \/ remote_port # <<>>) IN
    /\ IF check = INDEX_ERROR
       THEN /\ ret' = Ret("socket_send", ctx_id, rsp, INDEX_ERROR, UNSET)
            /\ UNCHANGED <<cmds, queue>>
       ELSE IF check # PASS
       THEN /\ ret' = Reject("socket_send", ctx_id, rsp, check)
            /\ UNCHANGED <<cmds, queue>>
       ELSE run_cmd([Cmd("socket_send", ctx_id, rsp, {P_OK}, {}, DATA_TX_WAIT,
                         FALSE, 0)
                        EXCEPT !.at_cmd = socket_send_at_cmd(ctx_id, data, length,
                                              NO_INFO, remote_addr, remote_port),
                               !.data = Encode(data)])
    /\ UNCHANGED <<SocketRest, raw_chunk_size, _socket_list, _socket>>

socket_receive_data(ctx_id, length, max_bytes, rsp) ==
    LET check == socket_receive_data_check(ctx_id, length, max_bytes) IN
    /\ IF check # PASS
       THEN /\ ret' = Reject("socket_receive_data", ctx_id, rsp, check)
            /\ UNCHANGED <<cmds, queue, raw_chunk_size>>
       ELSE /\ raw_chunk_size' = Min(length, max_bytes)
            /\ run_cmd([Cmd("socket_receive_data", ctx_id, rsp, {P_OK}, {},
                            TX_WAIT, FALSE, 0)
                           EXCEPT !.chunk = Min(length, max_bytes)])
    /\ UNCHANGED <<SocketRest, _socket_list, _socket>>

socket_create(pdp_context_id, rsp) ==
    LET check == socket_create_check(pdp_context_id)
        socket == FirstFree(_socket_list)
    IN
    /\ IF check # PASS
       THEN /\ ret' = Reject("socket_create", 0, rsp, check)
            /\ UNCHANGED <<cmds, queue, _socket_list, _socket>>
       ELSE IF socket = 0
       THEN /\ ret' = Reject("socket_create", 0, rsp, NO_FREE_SOCKET)
            /\ UNCHANGED <<cmds, queue, _socket_list, _socket>>
       ELSE /\ _socket_list' =
                  [_socket_list EXCEPT ![socket].state = RESERVED,
                                       ![socket].pdp_context_id = pdp_context_id]
            /\ _socket' = socket
            /\ run_cmd(Cmd("socket_create", _socket_list[socket].id, rsp, {P_OK},
                           {}, TX_WAIT, TRUE, socket))
    /\ UNCHANGED <<SocketRest, raw_chunk_size>>

socket_connect(socket_id, remote_port, accept_any_remote, rsp) ==
    LET socket == socket_connect_socket(_socket_list, _socket, socket_id) IN
    /\ IF socket = -1
       THEN /\ ret' = Reject("socket_connect", socket_id, rsp, NO_SUCH_SOCKET)
            /\ UNCHANGED <<cmds, queue, _socket_list, _socket>>
       ELSE IF socket = 0
       THEN \* self._socket = None, then the first assignment raises
            /\ _socket' = 0
            /\ ret' = Ret("socket_connect", socket_id, rsp, ATTRIBUTE_ERROR, UNSET)
            /\ UNCHANGED <<cmds, queue, _socket_list>>
       ELSE /\ _socket' = socket
            /\ _socket_list' =
                  [_socket_list EXCEPT ![socket].accept_any_remote = accept_any_remote,
                                       ![socket].remote_port = remote_port]
            /\ run_cmd(Cmd("socket_connect", _socket_list[socket].id, rsp, {P_OK},
                           {}, TX_WAIT, TRUE, socket))
    /\ UNCHANGED <<SocketRest, raw_chunk_size>>

\* _socket_mirror_state_reset, the callable the session restart runs for
\* this mixin: a new list of new sockets.  The sockets that commands still
\* hold as complete_handler_arg are the old ones, no longer in the list.
SocketMirror ==
    [socket_context_states |-> socket_context_states,
     _socket_list |-> _socket_list, _socket |-> _socket]

ResetSocketMirror(mirror) ==
    [mirror EXCEPT !._socket_list = socket_list_init, !._socket = 0]

socket_mirror_state_reset ==
    /\ _socket_list' = ResetSocketMirror(SocketMirror)._socket_list
    /\ _socket' = ResetSocketMirror(SocketMirror)._socket
    /\ socket_context_states' = ResetSocketMirror(SocketMirror).socket_context_states
    /\ cmds' = [c \in DOMAIN cmds |->
                  IF cmds[c].op \in {"socket_create", "socket_connect"}
                  THEN [cmds[c] EXCEPT !.arg = 0]
                  ELSE cmds[c]]
    /\ ret' = NoRet
    /\ UNCHANGED <<queue, active, elapsed, timeout, tx, raw_chunk_size,
                   coap_context_states>>

(***************************************************************************)
(* The notification dispatcher and its handlers.                           *)
(***************************************************************************)
\* bytes.split(sep) on a sequence of bytes: the pieces between the
\* occurrences of sep, one more than there are occurrences
RECURSIVE Split(_, _)
Split(bytes, sep) ==
    IF bytes = <<>> THEN << <<>> >>
    ELSE LET rest == Split(Tail(bytes), sep) IN
         IF Head(bytes) = sep THEN << <<>> >> \o rest
         ELSE << <<Head(bytes)>> \o Head(rest) >> \o Tail(rest)

\* Bytes: a carriage return, a line feed, an ordinary byte, and the header
\* fields 'ctx_id,max_bytes' taken as one
CR == "\\r"
LF == "\\n"
Byte == {"a", CR, LF}
RcvHeader(line) == [ctx_id |-> line.id, max_bytes |-> line.n]

\* The response the tokenizer hands over for '+SQNSRECV: ': what follows
\* the prefix is the header, a carriage return and the raw chunk.  Its
\* pieces between carriage returns are the header (which holds none) and
\* the pieces of the chunk.
RcvParts(line) == << <<RcvHeader(line)>> >> \o Split(line.s, CR)

ModemSocketResponse(ctx_id, max_bytes, payload, addr, port) ==
    [ctx_id |-> ctx_id, max_bytes |-> max_bytes, addr |-> addr, port |-> port,
     payload |-> payload]

\* SocketMixin._handle_socket_rcv: 'header, payload = ....split(b'\r')'
\* raises ValueError unless there are exactly two pieces, and cmd.rsp is
\* there to be written only when a command with an rsp is active.
\* rsp.socket_rcv_response is <<>> for None and <<response>> once assigned.
handle_socket_rcv_raises(cmd_rsp, line) ==
    Len(RcvParts(line)) # 2 \/ ~cmd_rsp

handle_socket_rcv(line) ==
    LET parts == RcvParts(line)
        header == parts[1][1]
        payload == parts[2]
    IN ModemSocketResponse(header.ctx_id, header.max_bytes, payload, "None", "None")

\* Mutant of handle_socket_ring: every entry shares one rings list
handle_socket_ring_shared(states, line) ==
    [p \in DOMAIN states |->
        [states[p] EXCEPT !.rings = Append(@, ModemSocketRing(line.id, line.n, line.s))]]

\* Mutant of handle_socket_ring: the new record is put in front
handle_socket_ring_front(states, line) ==
    [states EXCEPT ![PyIndex(states, line.id)].rings =
        <<ModemSocketRing(line.id, line.n, line.s)>> \o @]

\* SocketMixin._handle_socket_ring: the position of the entry that
\* socket_context_states[ctx_id] reads (0: the read raises IndexError), and
\* the new socket_context_states when it does not raise
handle_socket_ring_pos(states, line) == PyIndex(states, line.id)

handle_socket_ring(states, line) ==
    LET ctx_id == line.id IN
    [states EXCEPT ![handle_socket_ring_pos(states, line)].rings =
        Append(@, ModemSocketRing(ctx_id, line.n, line.s))]

\* Mutant of handle_coap_closed: the cause of the closure is not recorded
handle_coap_closed_nocause(states, line) ==
    [states EXCEPT ![line.id].connected = FALSE]

\* The handler of the CoAP closed URC: the context is no longer connected
\* and the cause of the closure is recorded
handle_coap_closed(states, line) ==
    [states EXCEPT ![line.id] = [connected |-> FALSE, cause |-> line.s]]

\* SocketMixin._handle_socket_ring raises ValueError when a field is not a
\* number and IndexError when socket_context_states[ctx_id] is out of range
handle_socket_ring_raises(states, line) ==
    Malformed(line) \/ handle_socket_ring_pos(states, line) = 0

\* SocketMixin._handle_socket_closed: 'at_rsp.split(b':').decode()' calls
\* decode on the list that split returns, which raises AttributeError for
\* every line; the assignment after it is the update the handler was to make
handle_socket_closed_raises(line) == TRUE

handle_socket_closed(states, line) ==
    [states EXCEPT ![PyIndex(states, line.id)].connected = FALSE]

\* SocketMixin.__handle_sqnscfg: six numbers are unpacked (ValueError
\* otherwise), then _socket_list[conn_id - 1] is read (IndexError when out
\* of range) and its fields are written
handle_sqnscfg_raises(list, line) ==
    Malformed(line) \/ PyIndex(list, line.id - 1) = 0

handle_sqnscfg(list, line) ==
    [list EXCEPT ![PyIndex(list, line.id - 1)] =
        [@ EXCEPT !.id = line.id, !.pdp_context_id = line.n]]

\* The table of unsolicited prefixes: the four of SocketMixin.__init__ and
\* the CoAP closed URC
UrcPrefixes == {P_SQNSH, P_SQNSRING, P_SQNSRECV, P_SQNSCFG, P_COAPCLOSED}

\* The lines the tokenizer can emit: the chunk that follows a receive
\* header has raw_chunk_size bytes
TokenizerEmits(line) ==
    IF ~Malformed(line) /\ line.pfx = P_SQNSRECV
    THEN Len(line.s) = raw_chunk_size
    ELSE TRUE

\* Whether the handler of a URC line raises
HandlerRaises(line) ==
    IF line.pfx = P_SQNSH THEN handle_socket_closed_raises(line)
    ELSE IF line.pfx = P_SQNSRING
    THEN handle_socket_ring_raises(socket_context_states, line)
    ELSE IF line.pfx = P_SQNSRECV
    THEN Malformed(line) \/ active = 0
         \/ handle_socket_rcv_raises(cmds[active].rsp, line)
    ELSE IF line.pfx = P_SQNSCFG THEN handle_sqnscfg_raises(_socket_list, line)
    ELSE Malformed(line)

\* Mutant of HandlerFailed: the exception of a handler ends the executor's
\* work on the commands it holds
HandlerFailed_fatal ==
    /\ queue' = <<>>
    /\ active' = 0
    /\ UNCHANGED <<cmds, coap_context_states, socket_context_states, _socket_list>>

\* What the dispatcher does with a line whose handler raised: the line is
\* discarded and nothing else is touched
HandlerFailed ==
    UNCHANGED <<cmds, queue, active, coap_context_states, socket_context_states,
                _socket_list>>

\* Mutant of DispatchGuard: a URC waits until no command is mid-flight
DispatchGuard_idle(line) == line.pfx \in UrcPrefixes /\ active = 0

\* The dispatcher claims a line by its prefix alone, whatever the executor
\* is doing
DispatchGuard(line) == line.pfx \in UrcPrefixes

\* A URC line: its handler updates the mirror; the queue and the active
\* command are not involved.  A handler that raises has updated nothing.
DispatchUrc(line) ==
    /\ DispatchGuard(line)
    /\ TokenizerEmits(line)
    /\ IF HandlerRaises(line)
       THEN /\ IF ~Malformed(line) /\ line.pfx = P_SQNSRECV /\ active # 0
               THEN \* the chunk was delivered to the handler all the same
                    /\ cmds' = [cmds EXCEPT ![active].sent = line.s]
                    /\ UNCHANGED <<queue, active, coap_context_states,
                                   socket_context_states, _socket_list>>
               ELSE HandlerFailed
       ELSE /\ UNCHANGED <<queue, active>>
            /\ IF line.pfx = P_SQNSRING
               THEN /\ Len(socket_context_states[
                            handle_socket_ring_pos(socket_context_states, line)].rings)
                          < MaxRings
                    /\ socket_context_states' =
                          handle_socket_ring(socket_context_states, line)
                    /\ UNCHANGED <<cmds, coap_context_states, _socket_list>>
               ELSE IF line.pfx = P_SQNSRECV
               THEN /\ cmds' = [cmds EXCEPT ![active].sent = line.s,
                                            ![active].socket_rcv_response =
                                                <<handle_socket_rcv(line)>>]
                    /\ UNCHANGED <<coap_context_states, socket_context_states,
                                   _socket_list>>
               ELSE IF line.pfx = P_SQNSH
               THEN /\ socket_context_states' =
                          handle_socket_closed(socket_context_states, line)
                    /\ UNCHANGED <<cmds, coap_context_states, _socket_list>>
               ELSE IF line.pfx = P_SQNSCFG
               THEN /\ _socket_list' = handle_sqnscfg(_socket_list, line)
                    /\ UNCHANGED <<cmds, coap_context_states, socket_context_states>>
               ELSE /\ coap_context_states' =
                          handle_coap_closed(coap_context_states, line)
                    /\ UNCHANGED <<cmds, socket_context_states, _socket_list>>
    /\ ret' = NoRet
    /\ UNCHANGED <<elapsed, timeout, tx, raw_chunk_size, _socket>>

\* A line the dispatcher does not claim goes to the executor
ExecutorLine(line) ==
    /\ line.pfx \notin UrcPrefixes
    /\ IF active # 0 /\ cmds[active].state = SENT /\ line.pfx = P_PROMPT
       THEN \* the prompt: the payload is written, then the terminal line awaited
            /\ tx' = Append(tx, <<"data", active>>)
            /\ cmds' = [cmds EXCEPT ![active].state = AWAITING_TERMINAL]
            /\ ret' = NoRet
            /\ UNCHANGED <<active, coap_context_states, _socket_list>>
       ELSE IF active # 0 /\ cmds[active].state = AWAITING_TERMINAL
               /\ Match(cmds[active], line) # ""
       THEN /\ Finish(active, Match(cmds[active], line),
                      IF Match(cmds[active], line) = COMPLETED THEN OK ELSE ERROR,
                      line.pfx)
            /\ UNCHANGED tx
       ELSE \* body content of the active command, or noise
            /\ ret' = NoRet
            /\ UNCHANGED <<cmds, active, coap_context_states, _socket_list, tx>>
    /\ UNCHANGED <<queue, elapsed, timeout, raw_chunk_size, socket_context_states,
                   _socket>>

ProcessLine(line) == DispatchUrc(line) \/ ExecutorLine(line)

(***************************************************************************)
(* Inputs and specifications.                                              *)
(***************************************************************************)
MinMaxCtxIds == {COAP_MIN_CTX_ID, COAP_MAX_CTX_ID}
UrcSocketIds == {SOCKET_MIN_CTX_ID, SOCKET_MAX_CTX_ID - 1, SOCKET_MAX_CTX_ID}

ResponseLines ==
    {Line(P_OK, 0, 0, ""), Line(P_PROMPT, 0, 0, ""), Line(P_COAPERROR, 0, 0, ""),
     Line(P_COAPRCV, 0, 0, ""), Line(P_NOISE, 0, 0, "")}
    \cup {Line(P_COAPCONNECTED, k, 0, "") : k \in MinMaxCtxIds}

ClosedLines == {Line(P_COAPCLOSED, COAP_MAX_CTX_ID, 0, s) : s \in {USER, NETWORK}}
RingLines == {Line(P_SQNSRING, i, 4, "") : i \in UrcSocketIds}

Init ==
    /\ cmds = <<>>
    /\ queue = <<>>
    /\ active = 0
    /\ elapsed = 0
    /\ timeout \in 1..MaxTimeout
    /\ tx = <<>>
    /\ raw_chunk_size = 0
    /\ coap_context_states = coap_context_states_init
    /\ socket_context_states = socket_context_states_init
    /\ _socket_list = socket_list_init
    /\ _socket = 0
    /\ ret = NoRet

Executor ==
    \/ \E ok \in BOOLEAN : StartNext(ok)
    \/ Tick
    \/ Timeout

\* The engine under valid calls, every response line and URCs
Next ==
    \/ \E k \in MinMaxCtxIds : coap_context_create(k, COAP_MIN_TIMEOUT, TRUE)
    \/ coap_send(COAP_MIN_CTX_ID, CON, GET, NoData, <<>>, TRUE)
    \/ \E l \in ResponseLines \cup {Line(P_COAPCLOSED, COAP_MAX_CTX_ID, 0, NETWORK)} :
          ProcessLine(l)
    \/ Executor

Spec == Init /\ [][Next]_vars

\* URCs of both mirrors arriving around commands that have a callback
NextUrc ==
    \/ coap_context_create(COAP_MAX_CTX_ID, COAP_MIN_TIMEOUT, TRUE)
    \/ \E l \in ResponseLines \cup ClosedLines \cup RingLines : ProcessLine(l)
    \/ Executor

SpecUrc == Init /\ [][NextUrc]_vars

\* The engine with its scheduling: time passes and the timer fires, and the
\* executor loop takes the next command whenever it is idle
NextLive ==
    \/ coap_context_create(COAP_MAX_CTX_ID, COAP_MIN_TIMEOUT, TRUE)
    \/ coap_send(COAP_MIN_CTX_ID, CON, GET, NoData, <<>>, TRUE)
    \/ \E l \in ResponseLines \cup {Line(P_COAPCLOSED, COAP_MAX_CTX_ID, 0, NETWORK)} :
          ProcessLine(l)
    \/ Executor

Fairness ==
    /\ WF_vars(Tick)
    /\ WF_vars(Timeout)
    /\ WF_vars(\E ok \in BOOLEAN : StartNext(ok))

SpecLive == Init /\ [][NextLive]_vars /\ Fairness

\* The four methods called with context ids beyond each end of the range,
\* with and without an rsp, their other arguments valid and invalid, while
\* accepted coap_receive_data calls keep the engine busy
BadCtxIds == {COAP_MIN_CTX_ID - 1, COAP_MAX_CTX_ID + 1}
ApiLines ==
    {Line(P_COAPRCV, 0, 0, ""), Line(P_COAPCLOSED, COAP_MIN_CTX_ID, 0, USER)}

NextApi ==
    \/ \E k \in BadCtxIds, t \in {COAP_MIN_TIMEOUT - 1, COAP_MIN_TIMEOUT},
          rsp \in BOOLEAN : coap_context_create(k, t, rsp)
    \/ \E k \in BadCtxIds, rsp \in BOOLEAN : coap_context_close(k, rsp)
    \/ \E k \in BadCtxIds, length \in {<<>>, <<COAP_MAX_BYTES_LENGTH + 1>>},
          rsp \in BOOLEAN : coap_send(k, CON, GET, NoData, length, rsp)
    \/ \E k \in BadCtxIds, length \in {-1, 1}, rsp \in BOOLEAN :
          coap_receive_data(k, length, COAP_MAX_BYTES_LENGTH, rsp)
    \/ coap_receive_data(COAP_MAX_CTX_ID, 1, COAP_MAX_BYTES_LENGTH, TRUE)
    \/ \E l \in ApiLines : ProcessLine(l)
    \/ Executor

SpecApi == Init /\ [][NextApi]_vars

\* The socket methods that take a ctx_id, called with ids beyond and at each
\* end of the range.  socket_send and socket_receive_data are given a length
\* that their later checks turn down, so that only socket_close occupies
\* the engine.
SockCtxIds == {SOCKET_MIN_CTX_ID - 1, SOCKET_MIN_CTX_ID, SOCKET_MAX_CTX_ID - 1,
               SOCKET_MAX_CTX_ID, SOCKET_MAX_CTX_ID + 1}
SockEndIds == {SOCKET_MIN_CTX_ID - 1, SOCKET_MIN_CTX_ID, SOCKET_MAX_CTX_ID,
               SOCKET_MAX_CTX_ID + 1}
\* an rsp is always given where the call is accepted
RspFor(ctx_id) ==
    IF ctx_id < SOCKET_MIN_CTX_ID \/ SOCKET_MAX_CTX_ID < ctx_id THEN BOOLEAN
    ELSE {TRUE}

NextSockVal ==
    \/ \E k \in SockEndIds : \E rsp \in RspFor(k) : socket_close(k, rsp)
    \/ \E k \in SockCtxIds, rsp \in BOOLEAN :
          socket_send(k, NoData, <<>>, <<>>, <<>>, rsp)
    \/ \E k \in SockCtxIds, rsp \in BOOLEAN :
          socket_receive_data(k, 1, SOCKET_RECV_MAX_BYTES_LEN + 1, rsp)
    \/ ExecutorLine(Line(P_OK, 0, 0, ""))
    \/ Executor

SpecSockVal == Init /\ [][NextSockVal]_vars

\* Calls with one argument out of its range: a context or socket id, a
\* timeout, a length, max_bytes, or a PDP context id
RejectedCall(rsp) ==
    \/ \E k \in BadCtxIds : coap_context_create(k, COAP_MIN_TIMEOUT, rsp)
    \/ \E t \in {COAP_MIN_TIMEOUT - 1, COAP_MAX_TIMEOUT + 1} :
          coap_context_create(COAP_MAX_CTX_ID, t, rsp)
    \/ coap_context_close(COAP_MAX_CTX_ID + 1, rsp)
    \/ \E length \in {COAP_MIN_BYTES_LENGTH - 1, COAP_MAX_BYTES_LENGTH + 1} :
          coap_send(COAP_MAX_CTX_ID, CON, GET, NoData, <<length>>, rsp)
    \/ \E a \in {<<COAP_MAX_CTX_ID + 1, 1, COAP_MAX_BYTES_LENGTH>>,
                  <<COAP_MAX_CTX_ID, 1, COAP_MAX_BYTES_LENGTH + 1>>,
                  <<COAP_MAX_CTX_ID, 1, COAP_MIN_BYTES_LENGTH - 1>>,
                  <<COAP_MAX_CTX_ID, -1, COAP_MAX_BYTES_LENGTH>>} :
          coap_receive_data(a[1], a[2], a[3], rsp)
    \/ socket_close(SOCKET_MAX_CTX_ID + 1, rsp)
    \/ \E a \in {<<SOCKET_MIN_CTX_ID - 1, 1>>,
                  <<SOCKET_MIN_CTX_ID, SOCKET_SEND_MIN_BYTES_LEN - 1>>,
                  <<SOCKET_MIN_CTX_ID, SOCKET_SEND_MAX_BYTES_LEN + 1>>} :
          socket_send(a[1], NoData, <<a[2]>>, <<>>, <<>>, rsp)
    \/ \E a \in {<<SOCKET_MAX_CTX_ID + 1, 1, SOCKET_RECV_MAX_BYTES_LEN>>,
                  <<SOCKET_MIN_CTX_ID, 1, SOCKET_RECV_MAX_BYTES_LEN + 1>>,
                  <<SOCKET_MIN_CTX_ID, 1, SOCKET_RECV_MIN_BYTES_LEN - 1>>,
                  <<SOCKET_MIN_CTX_ID, -1, SOCKET_RECV_MAX_BYTES_LEN>>} :
          socket_receive_data(a[1], a[2], a[3], rsp)
    \/ \E pdp_context_id \in {PDP_MIN_CTX_ID - 1, PDP_MAX_CTX_ID + 1} :
          socket_create(pdp_context_id, rsp)

\* Those calls made while accepted socket_create calls occupy the engine
\* and the socket table
NextReject ==
    \/ \E rsp \in BOOLEAN : RejectedCall(rsp)
    \/ socket_create(PDP_MAX_CTX_ID, TRUE)
    \/ ExecutorLine(Line(P_OK, 0, 0, ""))
    \/ Executor

SpecReject == Init /\ [][NextReject]_vars

\* The CoAP methods called with a valid context id and with timeouts,
\* lengths and max_bytes beyond and at each end of their ranges; the
\* accepted coap_context_create calls occupy the engine
CoapTimeouts == {COAP_MIN_TIMEOUT - 1, COAP_MIN_TIMEOUT, COAP_MAX_TIMEOUT,
                 COAP_MAX_TIMEOUT + 1}
BadCoapLengths == {COAP_MIN_BYTES_LENGTH - 1, COAP_MAX_BYTES_LENGTH + 1}
\* <<length, max_bytes>> of coap_receive_data
BadCoapReceives == {<<1, COAP_MIN_BYTES_LENGTH - 1>>, <<1, COAP_MAX_BYTES_LENGTH + 1>>,
                    <<-1, COAP_MAX_BYTES_LENGTH>>, <<-1, COAP_MIN_BYTES_LENGTH>>}

NextCoapVal ==
    \/ \E t \in CoapTimeouts :
          \E rsp \in (IF t < COAP_MIN_TIMEOUT \/ COAP_MAX_TIMEOUT < t
                      THEN BOOLEAN ELSE {TRUE}) :
             coap_context_create(COAP_MAX_CTX_ID, t, rsp)
    \/ \E length \in BadCoapLengths, rsp \in BOOLEAN :
          coap_send(COAP_MAX_CTX_ID, CON, GET, NoData, <<length>>, rsp)
    \/ \E a \in BadCoapReceives, rsp \in BOOLEAN :
          coap_receive_data(COAP_MAX_CTX_ID, a[1], a[2], rsp)
    \/ \E l \in {Line(P_COAPCONNECTED, COAP_MAX_CTX_ID, 0, ""),
                  Line(P_COAPERROR, 0, 0, "")} : ExecutorLine(l)
    \/ Executor

SpecCoapVal == Init /\ [][NextCoapVal]_vars

\* socket_receive_data declaring one byte, as its length or as its
\* max_bytes, and the modem answering with a chunk of each content
RcvArgs == {<<1, SOCKET_RECV_MAX_BYTES_LEN>>, <<2, SOCKET_RECV_MIN_BYTES_LEN>>}
RcvChunks == {<<b>> : b \in Byte}
RcvLines ==
    {Line(P_SQNSRECV, SOCKET_MIN_CTX_ID, SOCKET_RECV_MAX_BYTES_LEN, chunk) :
        chunk \in RcvChunks}

NextRcv ==
    \/ \E a \in RcvArgs : socket_receive_data(SOCKET_MIN_CTX_ID, a[1], a[2], TRUE)
    \/ \E l \in RcvLines : DispatchUrc(l)
    \/ ExecutorLine(Line(P_OK, 0, 0, ""))
    \/ Executor

SpecRcv == Init /\ [][NextRcv]_vars

\* The two prompt-kind commands, coap_send and socket_send, with the prompt
\* and OK arriving at any moment
OneByte == Bytes(<<13>>)

NextSend ==
    \/ coap_send(COAP_MIN_CTX_ID, CON, GET, NoData, <<>>, TRUE)
    \/ socket_send(SOCKET_MIN_CTX_ID, OneByte, <<>>, <<>>, <<>>, TRUE)
    \/ \E l \in {Line(P_PROMPT, 0, 0, ""), Line(P_OK, 0, 0, "")} : ExecutorLine(l)
    \/ Executor

SpecSend == Init /\ [][NextSend]_vars

\* Sockets created, rings arriving for the first and the last socket id,
\* and the session restart running the reset of this mixin at any moment
SockRingLines ==
    {Line(P_SQNSRING, i, 4, "") : i \in {SOCKET_MIN_CTX_ID, SOCKET_MAX_CTX_ID}}

NextSock ==
    \/ socket_create(PDP_MIN_CTX_ID, TRUE)
    \/ \E l \in SockRingLines : DispatchUrc(l)
    \/ socket_mirror_state_reset
    \/ ExecutorLine(Line(P_OK, 0, 0, ""))
    \/ Executor

SpecSock == Init /\ [][NextSock]_vars

\* A context created and closed by the user, the modem announcing closures
\* by the user and by the network at any moment
NextClose ==
    \/ coap_context_create(COAP_MAX_CTX_ID, COAP_MIN_TIMEOUT, TRUE)
    \/ coap_context_close(COAP_MAX_CTX_ID, TRUE)
    \/ \E l \in {Line(P_OK, 0, 0, ""), Line(P_COAPCONNECTED, COAP_MAX_CTX_ID, 0, "")}
                 \cup ClosedLines : ProcessLine(l)
    \/ Executor

SpecClose == Init /\ [][NextClose]_vars

\* Lines with a registered prefix whose handler raises: a suffix that does
\* not parse, an identifier out of range, the closed URC of a valid socket,
\* a chunk holding a carriage return
BadUrcLines ==
    {BadLine(pfx) : pfx \in {P_SQNSH, P_SQNSRING, P_SQNSRECV, P_SQNSCFG}}
    \cup {Line(P_SQNSRING, i, 4, "") : i \in {SOCKET_MAX_CTX_ID, SOCKET_MAX_CTX_ID + 1}}
    \cup {Line(P_SQNSH, SOCKET_MIN_CTX_ID, 0, ""),
          Line(P_SQNSCFG, SOCKET_MAX_CTX_ID + 2, PDP_MIN_CTX_ID, ""),
          Line(P_SQNSRECV, SOCKET_MIN_CTX_ID, SOCKET_RECV_MAX_BYTES_LEN, <<CR>>)}

\* A line whose handler returns
GoodUrcLines ==
    {Line(P_SQNSRECV, SOCKET_MIN_CTX_ID, SOCKET_RECV_MAX_BYTES_LEN, <<"a">>)}

\* Those lines arriving around socket_receive_data commands
NextBadUrc ==
    \/ socket_receive_data(SOCKET_MIN_CTX_ID, 1, SOCKET_RECV_MAX_BYTES_LEN, TRUE)
    \/ \E l \in BadUrcLines \cup GoodUrcLines : DispatchUrc(l)
    \/ \E l \in {Line(P_OK, 0, 0, ""), Line(P_NOISE, 0, 0, "")} : ExecutorLine(l)
    \/ Executor

SpecBadUrc == Init /\ [][NextBadUrc]_vars

\* socket_connect called with the default socket_id and with ids around
\* the ends of the socket table, before and after a socket is in use
ConnectIds == {-1, SOCKET_MIN_CTX_ID - 1, SOCKET_MAX_CTX_ID + 2}
ConnectPort == 5683

NextConnect ==
    \/ \E k \in ConnectIds : socket_connect(k, ConnectPort, DISABLED, TRUE)
    \/ ExecutorLine(Line(P_OK, 0, 0, ""))
    \/ Executor

SpecConnect == Init /\ [][NextConnect]_vars

\* socket_send and ring URCs for the two ends of the range of socket ids,
\* and a ring URC for the id below it
EntryIds == {SOCKET_MIN_CTX_ID - 1, SOCKET_MIN_CTX_ID, SOCKET_MAX_CTX_ID}

NextEntries ==
    \/ \E k \in EntryIds \ {SOCKET_MIN_CTX_ID - 1} :
          socket_send(k, OneByte, <<>>, <<>>, <<>>, TRUE)
    \/ \E k \in EntryIds : DispatchUrc(Line(P_SQNSRING, k, 4, ""))
    \/ \E l \in {Line(P_PROMPT, 0, 0, ""), Line(P_OK, 0, 0, "")} : ExecutorLine(l)
    \/ Executor

SpecEntries == Init /\ [][NextEntries]_vars

\* Two ring URCs for one socket, told apart by their length, arriving in
\* either order around socket_close commands
OrderRingLines == {Line(P_SQNSRING, SOCKET_MIN_CTX_ID, n, "") : n \in {4, 5}}

NextOrder ==
    \/ socket_close(SOCKET_MIN_CTX_ID, TRUE)
    \/ \E l \in OrderRingLines : DispatchUrc(l)
    \/ ExecutorLine(Line(P_OK, 0, 0, ""))
    \/ Executor

SpecOrder == Init /\ [][NextOrder]_vars

\* coap_send without a length: no data, a string of a one-byte and a
\* three-byte character, and a bytes object
SendData == {NoData, Str(<<97, 8364>>), Bytes(<<13>>)}

NextCoapSend ==
    \/ \E data \in SendData : coap_send(COAP_MIN_CTX_ID, CON, GET, data, <<>>, TRUE)
    \/ \E l \in {Line(P_PROMPT, 0, 0, ""), Line(P_OK, 0, 0, "")} : ExecutorLine(l)
    \/ Executor

SpecCoapSend == Init /\ [][NextCoapSend]_vars

\* The closed URC and the ring URC, without and with inline data, for the
\* first and the last socket id, arriving around socket_close commands
SockUrcLines ==
    {Line(P_SQNSH, i, 0, "") : i \in {SOCKET_MIN_CTX_ID, SOCKET_MAX_CTX_ID}}
    \cup {Line(P_SQNSRING, i, 4, d) :
             i \in {SOCKET_MIN_CTX_ID, SOCKET_MAX_CTX_ID}, d \in {"", "data"}}

NextSockUrc ==
    \/ socket_close(SOCKET_MIN_CTX_ID, TRUE)
    \/ \E l \in SockUrcLines : DispatchUrc(l)
    \/ ExecutorLine(Line(P_OK, 0, 0, ""))
    \/ Executor

SpecSockUrc == Init /\ [][NextSockUrc]_vars

\* A command with a failure prefix (coap_context_create) and one without
\* (coap_context_close), and lines that match a success prefix, a failure
\* prefix or neither
MatchLines ==
    {Line(P_OK, 0, 0, ""), Line(P_COAPCONNECTED, COAP_MAX_CTX_ID, 0, ""),
     Line(P_COAPERROR, 0, 0, ""), Line(P_NOISE, 0, 0, "")}

NextMatch ==
    \/ coap_context_create(COAP_MAX_CTX_ID, COAP_MIN_TIMEOUT, TRUE)
    \/ coap_context_close(COAP_MAX_CTX_ID, TRUE)
    \/ \E l \in MatchLines : ExecutorLine(l)
    \/ Executor

SpecMatch == Init /\ [][NextMatch]_vars

\* Two callers of coap_receive_data declaring different lengths, the second
\* possibly while the first is mid-flight
ChunkLengths == {1, 2}

NextChunk ==
    \/ \E length \in ChunkLengths :
          coap_receive_data(COAP_MAX_CTX_ID, length, COAP_MAX_BYTES_LENGTH, TRUE)
    \/ ExecutorLine(Line(P_COAPRCV, COAP_MAX_CTX_ID, 0, ""))
    \/ Executor

SpecChunk == Init /\ [][NextChunk]_vars

\* <<data, length>> of the two send methods with the length given by the
\* caller: the number of bytes of the data, and the number of characters of
\* a string whose character takes three bytes
LengthArgs == {<<Bytes(<<13, 10>>), <<2>>>>, <<Str(<<8364>>), <<1>>>>}

NextLength ==
    \/ \E a \in LengthArgs :
          coap_send(COAP_MIN_CTX_ID, CON, GET, a[1], a[2], TRUE)
    \/ \E a \in LengthArgs :
          socket_send(SOCKET_MIN_CTX_ID, a[1], a[2], <<>>, <<>>, TRUE)
    \/ \E l \in {Line(P_PROMPT, 0, 0, ""), Line(P_OK, 0, 0, "")} : ExecutorLine(l)
    \/ Executor

SpecLength == Init /\ [][NextLength]_vars

\* Sockets created one after another and at once, the first socket closed,
\* the modem answering OK or not at all
NextCreate ==
    \/ socket_create(PDP_DEFAULT_CTX_ID, TRUE)
    \/ socket_close(SOCKET_MIN_CTX_ID, TRUE)
    \/ ExecutorLine(Line(P_OK, 0, 0, ""))
    \/ Executor

SpecCreate == Init /\ [][NextCreate]_vars

\* socket_create calls and socket_connect calls that name the first socket,
\* made in any order, the modem answering OK or not at all
NextLife ==
    \/ socket_create(PDP_DEFAULT_CTX_ID, TRUE)
    \/ socket_connect(SOCKET_MIN_CTX_ID, ConnectPort, DISABLED, TRUE)
    \/ ExecutorLine(Line(P_OK, 0, 0, ""))
    \/ Executor

SpecLife == Init /\ [][NextLife]_vars

\* The first socket connected with accept_any_remote REMOTE_RX_AND_TX, and
\* socket_send on it without and with a remote address and port
RemoteHost == "coap.me"

NextRemote ==
    \/ socket_connect(SOCKET_MIN_CTX_ID, ConnectPort, REMOTE_RX_AND_TX, TRUE)
    \/ socket_send(SOCKET_MIN_CTX_ID, OneByte, <<>>, <<>>, <<>>, TRUE)
    \/ socket_send(SOCKET_MIN_CTX_ID, OneByte, <<>>, <<RemoteHost>>, <<ConnectPort>>,
                   TRUE)
    \/ \E l \in {Line(P_PROMPT, 0, 0, ""), Line(P_OK, 0, 0, "")} : ExecutorLine(l)
    \/ Executor

SpecRemote == Init /\ [][NextRemote]_vars

(***************************************************************************)
(* Properties.                                                             *)
(***************************************************************************)
Ids == 1..Len(cmds)
CoapOps == {"coap_context_create", "coap_context_close", "coap_send",
            "coap_receive_data"}
StateOf(c) == IF c \in Ids THEN cmds[c].state ELSE "NONE"
HeadOf(q) == IF q # <<>> THEN Head(q) ELSE 0
MidFlightCmds == {c \in Ids : cmds[c].state \in MidFlight}
CmdWrites == {i \in 1..Len(tx) : tx[i][1] = "cmd"}

\* C1: at most one command is mid-flight (SENT or AWAITING_TERMINAL), it is
\* the active one, and a command whose text was followed on the transport
\* by the text of another command had reached a terminal state.
C1_OneMidFlight ==
    /\ Cardinality(MidFlightCmds) <= 1
    /\ MidFlightCmds \subseteq {active}
    /\ \A i, j \in CmdWrites : i < j => cmds[tx[i][2]].state \in Terminal

\* a second command is mid-flight after the first finished, a third queued
C1_Witness ==
    \E i, j \in CmdWrites :
        /\ i < j
        /\ cmds[tx[j][2]].state \in MidFlight
        /\ queue # <<>>

\* C2: commands reach their terminal states in submission order: a command
\* is never terminal while one accepted before it is not.
C2_Fifo ==
    \A c, d \in Ids : (c < d /\ cmds[d].state \in Terminal)
                         => cmds[c].state \in Terminal

\* every accepted command finished, with a URC processed on the way
C2_Witness ==
    /\ Len(cmds) = MaxCmds
    /\ \A c \in Ids : cmds[c].state \in Terminal
    /\ coap_context_states[COAP_MAX_CTX_ID].cause = NETWORK

\* C5: the queue never holds more than its capacity; a _run_cmd made when
\* the queue is at capacity ends at once with the queue-full outcome and
\* leaves the queued commands and the active command as they were.
C5_QueueBounded ==
    /\ [](Len(queue) <= QueueCapacity)
    /\ [][(ret'.val \in {"await", QUEUE_FULL} /\ Len(queue) >= QueueCapacity)
            => /\ ret'.val = QUEUE_FULL
               /\ UNCHANGED <<cmds, queue, active, elapsed, tx>>]_vars

\* an enqueue refused while a command is active and the queue is full
C5_Witness ==
    /\ ret.val = QUEUE_FULL
    /\ active # 0
    /\ Len(queue) = QueueCapacity

\* C7: whenever the caller of coap_context_create for context k is handed
\* True, the entry of k is already connected.
C7_CallbackBeforeResume ==
    (ret.op = "coap_context_create" /\ ret.val = "True")
        => coap_context_states[ret.ctx_id].connected

C7_Witness ==
    /\ ret.op = "coap_context_create"
    /\ ret.val = "True"
    /\ ret.ctx_id = COAP_MAX_CTX_ID
    /\ coap_context_states[COAP_MAX_CTX_ID].connected

\* C8: the step that ends a coap_context_create hands its caller True
\* exactly when the command ended on a +SQNCOAPCONNECTED: line; when it
\* ended otherwise (+SQNCOAP: ERROR, the timer, a failed write) the caller
\* gets False and the entry of the context is left as it was, so an entry
\* that was not connected stays not connected.
C8_CreateOutcome ==
    [][\A c \in Ids :
          (/\ cmds[c].op = "coap_context_create"
           /\ cmds[c].state \notin Terminal
           /\ cmds'[c].state \in Terminal)
          => /\ ret'.op = "coap_context_create"
             /\ ret'.val = IF cmds'[c].term = P_COAPCONNECTED THEN "True"
                           ELSE "False"
             /\ cmds'[c].term # P_COAPCONNECTED =>
                   coap_context_states'[cmds[c].ctx_id]
                      = coap_context_states[cmds[c].ctx_id]]_vars

\* a create ended by +SQNCOAP: ERROR: False, and the entry not connected
C8_Witness ==
    \E c \in Ids :
        /\ cmds[c].op = "coap_context_create"
        /\ cmds[c].term = P_COAPERROR
        /\ ret.op = "coap_context_create"
        /\ ret.val = "False"
        /\ ~coap_context_states[cmds[c].ctx_id].connected

\* C6: a URC handled while a command is AWAITING_TERMINAL changes one
\* mirror entry only, the one its identifier addresses (a ring is appended
\* to the entry read at the ring's ctx_id), and leaves the queue, the active
\* command, its timer and the transport as they were.
SocketEntriesChanged ==
    {p \in DOMAIN socket_context_states :
        socket_context_states'[p] # socket_context_states[p]}
CoapEntriesChanged ==
    {k \in CoapIds : coap_context_states'[k] # coap_context_states[k]}
\* the mirror changes and no command finishes: a URC was handled
UrcStep ==
    /\ cmds' = cmds
    /\ (SocketEntriesChanged # {} \/ CoapEntriesChanged # {})

C6_UrcIsolation ==
    [][(active # 0 /\ cmds[active].state = AWAITING_TERMINAL /\ UrcStep)
         => /\ Cardinality(SocketEntriesChanged) + Cardinality(CoapEntriesChanged) = 1
            /\ \A p \in SocketEntriesChanged :
                  LET old == socket_context_states[p]
                      new == socket_context_states'[p]
                  IN  /\ Len(new.rings) = Len(old.rings) + 1
                      /\ SubSeq(new.rings, 1, Len(old.rings)) = old.rings
                      /\ PyIndex(socket_context_states,
                                 new.rings[Len(new.rings)].ctx_id) = p
                      /\ [new EXCEPT !.rings = old.rings] = old
            /\ UNCHANGED <<queue, active, elapsed, timeout, tx, raw_chunk_size>>]_vars

\* a ring was stored while the active command awaits its terminal line
C6_Witness ==
    /\ active # 0
    /\ cmds[active].state = AWAITING_TERMINAL
    /\ elapsed > 0
    /\ socket_context_states[PyIndex(socket_context_states, SOCKET_MIN_CTX_ID)].rings # <<>>
    /\ coap_context_states[COAP_MAX_CTX_ID].cause = NETWORK

\* C3: every command that is SENT or AWAITING_TERMINAL, and every queued
\* command, eventually reaches a terminal state; a terminal command never
\* changes again; and a mid-flight command ends either on a line of its
\* terminal matchers or, abandoned, on its timer at the deadline.
C3_AlwaysTerminal ==
    /\ \A c \in 1..MaxCmds :
          (StateOf(c) \in MidFlight \cup {PENDING}) ~> (StateOf(c) \in Terminal)
    /\ [][\A c \in Ids :
            /\ cmds[c].state \in Terminal => cmds'[c] = cmds[c]
            /\ (cmds[c].state \in MidFlight /\ cmds'[c].state \in Terminal)
                 => \/ /\ cmds'[c].state = TIMED_OUT
                       /\ cmds'[c].term = "timer"
                       /\ elapsed >= timeout
                    \/ /\ cmds'[c].state = COMPLETED
                       /\ cmds'[c].term \in cmds[c].success
                    \/ /\ cmds'[c].state = FAILED
                       /\ cmds'[c].term \in cmds[c].failure]_vars

\* one command was abandoned on its timer, another completed on its line
C3_Witness ==
    \E c, d \in Ids : cmds[c].state = TIMED_OUT /\ cmds[d].state = COMPLETED

\* C4: a command ends TIMED_OUT, with the timeout result, exactly when
\* elapsed = timeout: the timer never fires earlier and elapsed never passes
\* the timeout; a command at its deadline finishes, and the queued command
\* at the head of the queue is then started.
C4_TimeoutExact ==
    /\ [](active # 0 => elapsed <= timeout)
    /\ [][\A c \in Ids :
            (cmds[c].state # TIMED_OUT /\ cmds'[c].state = TIMED_OUT)
               => /\ elapsed = timeout
                  /\ c = active
                  /\ active' = 0
                  /\ cmds'[c].result = TIMEOUT
                  /\ ret'.val = "False" /\ ret'.result = TIMEOUT]_vars
    /\ \A c \in 1..MaxCmds :
          (c = active /\ elapsed = timeout) ~> (StateOf(c) \in Terminal)
    /\ \A c \in 1..MaxCmds :
          (active = 0 /\ HeadOf(queue) = c) ~> (StateOf(c) # PENDING)

\* a command timed out and the next queued command is mid-flight
C4_Witness ==
    \E c, d \in Ids :
        /\ c < d
        /\ cmds[c].state = TIMED_OUT
        /\ cmds[d].state \in MidFlight
        /\ active = d

\* C10: each of coap_context_create, coap_context_close, coap_send and
\* coap_receive_data, called with a ctx_id outside 0..2, returns False at
\* once, sets the result of a supplied rsp to NO_SUCH_PROFILE, and enqueues
\* nothing and writes nothing to the transport (nor touches the parser or
\* the mirrors), whatever its other arguments are.
C10_BadCtxRejected ==
    [][(ret'.op \in CoapOps /\ (ret'.ctx_id < 0 \/ ret'.ctx_id > 2))
          => /\ ret'.val = "False"
             /\ ret'.rsp => ret'.result = NO_SUCH_PROFILE
             /\ UNCHANGED <<cmds, queue, active, elapsed, tx, raw_chunk_size,
                            coap_context_states, socket_context_states>>]_vars

\* coap_receive_data(3, ...) with an rsp was rejected with NO_SUCH_PROFILE
\* while one command was mid-flight and another was waiting in the queue
C10_Witness ==
    /\ ret = Ret("coap_receive_data", COAP_MAX_CTX_ID + 1, TRUE, "False",
                 NO_SUCH_PROFILE)
    /\ active # 0
    /\ queue # <<>>
    /\ tx # <<>>

\* C11: socket_close, socket_send and socket_receive_data, called with a
\* ctx_id outside 1..6, return False at once with result NO_SUCH_PROFILE and
\* enqueue and write nothing; called with a ctx_id inside 1..6 they are not
\* turned down as NO_SUCH_PROFILE (the identifier check passes).
SocketCtxOps == {"socket_close", "socket_send", "socket_receive_data"}

C11_SocketCtxRange ==
    [][ret'.op \in SocketCtxOps
         => IF ret'.ctx_id < 1 \/ ret'.ctx_id > 6
            THEN /\ ret'.val = "False"
                 /\ ret'.rsp => ret'.result = NO_SUCH_PROFILE
                 /\ UNCHANGED <<cmds, queue, active, elapsed, tx, raw_chunk_size>>
            ELSE ret'.result # NO_SUCH_PROFILE]_vars

\* socket_receive_data(7, ...) was turned down while one command was
\* mid-flight and another queued, both accepted socket_close calls for the
\* two ends of the range
C11_Witness ==
    /\ ret = Reject("socket_receive_data", SOCKET_MAX_CTX_ID + 1, TRUE,
                    NO_SUCH_PROFILE)
    /\ active # 0 /\ cmds[active].op = "socket_close"
    /\ cmds[active].ctx_id = SOCKET_MIN_CTX_ID
    /\ queue # <<>> /\ cmds[Head(queue)].ctx_id = SOCKET_MAX_CTX_ID

\* C12: a call turned down by argument validation (an identifier, a length,
\* max_bytes, a timeout or a PDP context id out of range) leaves the engine
\* as it was: the commands and the queue, the transport, raw_chunk_size,
\* every mirror entry, and the socket table and the socket in use (no
\* socket becomes RESERVED).
\* a call returned False in this step, and not as the outcome of a command
\* that ended in it
ReturnedFalseAtOnce ==
    /\ ret'.op # "" /\ ret'.val = "False"
    /\ \A c \in 1..Len(cmds) :
          cmds[c].state \in Terminal \/ cmds'[c].state \notin Terminal

C12_RejectionFrame ==
    [][ReturnedFalseAtOnce
         => UNCHANGED <<cmds, queue, active, elapsed, timeout, tx,
                        raw_chunk_size, coap_context_states,
                        socket_context_states, _socket_list, _socket>>]_vars

\* socket_create(0) was turned down while a socket was CREATED, one was
\* RESERVED for the command mid-flight, and the other sockets were FREE
C12_Witness ==
    /\ ret = Reject("socket_create", 0, TRUE, NO_SUCH_PDP_CONTEXT)
    /\ _socket_list[1].state = CREATED
    /\ _socket_list[2].state = RESERVED
    /\ \A p \in 3..Len(_socket_list) : _socket_list[p].state = FREE
    /\ active # 0 /\ cmds[active].arg = 2

\* C13: coap_context_create with a valid ctx_id and a timeout outside 1..120
\* returns False at once with result ERROR and neither enqueues nor writes
\* anything; with a timeout in 1..120 it is not turned down (the request
\* goes to _run_cmd).
C13_CreateTimeoutRange ==
    [][\A t \in CoapTimeouts, rsp \in BOOLEAN :
          coap_context_create(COAP_MAX_CTX_ID, t, rsp)
            => IF t < 1 \/ t > 120
               THEN /\ ret'.val = "False"
                    /\ rsp => ret'.result = ERROR
                    /\ UNCHANGED <<cmds, queue, active, tx>>
               ELSE ret'.val \in {"await", QUEUE_FULL}]_vars

\* coap_context_create(2, timeout) was turned down with ERROR while an
\* earlier, accepted one was mid-flight
C13_Witness ==
    /\ ret = Reject("coap_context_create", COAP_MAX_CTX_ID, TRUE, ERROR)
    /\ active # 0 /\ cmds[active].op = "coap_context_create"
    /\ cmds[active].state = AWAITING_TERMINAL
    /\ queue = <<>>

\* C14: with a valid ctx_id, coap_send with a length outside 0..1024, and
\* coap_receive_data with max_bytes outside 0..1024 or a negative length,
\* return False at once with result ERROR and neither enqueue nor write
\* anything.
C14_CoapLengthRange ==
    [][\A rsp \in BOOLEAN :
          /\ \A length \in {-1, 1025} :
                coap_send(COAP_MAX_CTX_ID, CON, GET, NoData, <<length>>, rsp)
                  => /\ ret'.val = "False"
                     /\ rsp => ret'.result = ERROR
                     /\ UNCHANGED <<cmds, queue, active, tx>>
          /\ \A a \in {<<1, -1>>, <<1, 1025>>, <<-1, 1024>>, <<-1, 0>>} :
                coap_receive_data(COAP_MAX_CTX_ID, a[1], a[2], rsp)
                  => /\ ret'.val = "False"
                     /\ rsp => ret'.result = ERROR
                     /\ UNCHANGED <<cmds, queue, active, tx>>]_vars

\* coap_send(2, None, length) was turned down with ERROR while a command
\* was mid-flight and another queued
C14_Witness ==
    /\ ret = Reject("coap_send", COAP_MAX_CTX_ID, TRUE, ERROR)
    /\ active # 0
    /\ queue # <<>>

\* C15: a receive command that declared length L with maximum M hands its
\* caller, in the response, exactly the min(L, M) bytes the modem sent after
\* the response header, whatever those bytes are (carriage returns and line
\* feeds included).  Stated for socket_receive_data commands that ended on
\* their OK after the modem sent the chunk.
C15_PayloadIntact ==
    \A c \in 1..Len(cmds) :
       (/\ cmds[c].op = "socket_receive_data"
        /\ cmds[c].state = COMPLETED
        /\ cmds[c].sent # <<>>)
          => /\ cmds[c].socket_rcv_response # <<>>
             /\ cmds[c].socket_rcv_response[1].payload = cmds[c].sent
             /\ Len(cmds[c].socket_rcv_response[1].payload) = cmds[c].chunk

\* C16: for a prompt-kind command (coap_send, socket_send) the payload is
\* written only in the step in which the prompt is observed, which comes
\* after the command text was written and finds the command still SENT;
\* it is written once; and the command completes only on OK, after the
\* payload.
DataWrites(c) == {i \in 1..Len(tx) : tx[i] = <<"data", c>>}
TextWrites(c) == {i \in 1..Len(tx) : tx[i] = <<"cmd", c>>}

C16_PayloadAfterPrompt ==
    /\ [](\A c \in 1..Len(cmds) :
            /\ Cardinality(DataWrites(c)) <= 1
            /\ \A i \in DataWrites(c) :
                  /\ cmds[c].cmd_type = DATA_TX_WAIT
                  /\ \E j \in TextWrites(c) : j < i
            /\ (cmds[c].cmd_type = DATA_TX_WAIT /\ cmds[c].state = SENT)
                  => DataWrites(c) = {}
            /\ (cmds[c].cmd_type = DATA_TX_WAIT /\ cmds[c].state = COMPLETED)
                  => DataWrites(c) # {} /\ cmds[c].term = P_OK)
    /\ [][\A c \in 1..Len(cmds) :
            (DataWrites(c) = {} /\ <<"data", c>> \in {tx'[i] : i \in 1..Len(tx')})
               => /\ ExecutorLine(Line(P_PROMPT, 0, 0, ""))
                  /\ c = active
                  /\ cmds[c].state = SENT
                  /\ cmds'[c].state = AWAITING_TERMINAL]_vars

\* a socket_send completed on OK after its payload was written, and a
\* coap_send is SENT with its payload not yet written
C16_Witness ==
    /\ Len(cmds) >= 2
    /\ cmds[1].op = "socket_send" /\ cmds[1].state = COMPLETED
    /\ tx[2] = <<"data", 1>>
    /\ cmds[2].op = "coap_send" /\ cmds[2].state = SENT
    /\ active = 2 /\ elapsed > 0

\* The mirror state of the socket mixin as __init__ leaves it
SocketMirrorDefault ==
    [socket_context_states |-> socket_context_states_init,
     _socket_list |-> socket_list_init, _socket |-> 0]

\* C17: once the session-restart reset has run, every socket mirror entry
\* is at its defaults (not connected, not configured, no rings,
\* accept_any_remote DISABLED), every socket is FREE and no socket is in
\* use, whatever came before.
C17_ResetDefaults ==
    [][socket_mirror_state_reset
         => /\ \A p \in DOMAIN socket_context_states' :
                  socket_context_states'[p] = ModemSocketContextState
            /\ \A p \in DOMAIN _socket_list' : _socket_list'[p].state = FREE
            /\ _socket' = 0]_vars

\* C18: from every reachable state, running the reset twice in a row gives
\* the mirror state that running it once gives, and that state is the
\* all-default state.
C18_ResetIdempotent ==
    /\ ResetSocketMirror(ResetSocketMirror(SocketMirror)) = ResetSocketMirror(SocketMirror)
    /\ ResetSocketMirror(SocketMirror) = SocketMirrorDefault

\* C19: the rings of a mirror entry are a bounded queue: however many ring
\* URCs arrive for a socket without being consumed, the records stored stay
\* within a bound of the program, hence below the number of ring URCs the
\* model lets arrive for one entry (MaxRings), whatever that number is.
C19_RingsBounded ==
    \A p \in DOMAIN socket_context_states :
       Len(socket_context_states[p].rings) < MaxRings

\* C20: no reachable state, a context closed and then created again
\* included, shows a mirror entry that is connected and still carries the
\* cause of an earlier closure.
C20_NoStaleCause ==
    \A k \in CoapIds :
       coap_context_states[k].connected => coap_context_states[k].cause = NO_CAUSE

\* The step in which a coap_context_close command reaches a terminal state
CloseFinished ==
    /\ active # 0
    /\ active' = 0
    /\ cmds[active].op = "coap_context_close"

CmdProgress ==
    [c \in DOMAIN cmds |->
        <<cmds[c].state, cmds[c].result, cmds[c].term, cmds[c].socket_rcv_response>>]

C23_ConnectValidation ==
    [][\A k \in ConnectIds :
          (/\ socket_connect(k, ConnectPort, DISABLED, TRUE)
           /\ IF k = -1 THEN _socket = 0
              ELSE k < SOCKET_MIN_CTX_ID \/ SOCKET_MAX_CTX_ID < k)
            => /\ ret' = Reject("socket_connect", k, TRUE, NO_SUCH_SOCKET)
               /\ UNCHANGED <<cmds, queue, tx, _socket_list, _socket>>]_vars

\* C24: the socket mirror has one entry per socket id of 1..6 and no other:
\* socket_send with an id of 1..6 finds the entry it reads, the rings an
\* entry holds all came for one id, no two entries hold rings of the same
\* id, and no entry holds a ring that came for an id outside 1..6.
C24_OneEntryPerId ==
    /\ (ret.op = "socket_send" /\ ret.ctx_id \in SOCKET_MIN_CTX_ID..SOCKET_MAX_CTX_ID)
          => ret.val # INDEX_ERROR
    /\ \A p, q \in DOMAIN socket_context_states :
          \A i \in DOMAIN socket_context_states[p].rings,
             j \in DOMAIN socket_context_states[q].rings :
             /\ socket_context_states[p].rings[i].ctx_id
                   \in SOCKET_MIN_CTX_ID..SOCKET_MAX_CTX_ID
             /\ (socket_context_states[p].rings[i].ctx_id
                   = socket_context_states[q].rings[j].ctx_id) <=> (p = q)

\* C25: a URC line that arrives while a command is mid-flight is dispatched
\* at once: its handler can run in every state in which a command is
\* mid-flight, and when it runs the mirror entry is updated in that step
\* while the command stays mid-flight in the state it was in.
C25_UrcNotDelayed ==
    /\ [](active # 0 => \A l \in ClosedLines : ENABLED DispatchUrc(l))
    /\ [][\A l \in ClosedLines :
             (DispatchUrc(l) /\ active # 0)
               => /\ coap_context_states'[l.id] = [connected |-> FALSE, cause |-> l.s]
                  /\ active' = active
                  /\ cmds'[active].state = cmds[active].state
                  /\ cmds[active].state \in MidFlight]_vars

\* the closure of context 2 by the network is in the mirror while the
\* coap_context_create of that context is still awaiting its terminal line
C25_Witness ==
    /\ active # 0
    /\ cmds[active].state = AWAITING_TERMINAL
    /\ cmds[active].op = "coap_context_create"
    /\ cmds[active].ctx_id = COAP_MAX_CTX_ID
    /\ coap_context_states[COAP_MAX_CTX_ID].cause = NETWORK

\* The rings of an entry before a step are the first rings of it after
IsPrefix(a, b) == Len(a) <= Len(b) /\ SubSeq(b, 1, Len(a)) = a

\* C26: the ring records of a socket are in the order in which its ring
\* URCs arrived: the record of an arriving ring URC goes behind the records
\* already stored for that socket, and no step (a command sent or completed
\* between two URCs included) removes or reorders stored records.
C26_RingsInArrivalOrder ==
    [][/\ \A p \in DOMAIN socket_context_states :
             IsPrefix(socket_context_states[p].rings, socket_context_states'[p].rings)
       /\ \A l \in OrderRingLines :
             DispatchUrc(l) =>
                socket_context_states'[PyIndex(socket_context_states, l.id)].rings =
                   Append(socket_context_states[PyIndex(socket_context_states, l.id)].rings,
                          ModemSocketRing(l.id, l.n, l.s))]_vars

\* two rings of socket 1 are stored in the order they came in, the later
\* one having arrived while a second command was mid-flight, after a first
\* one completed
C26_Witness ==
    /\ socket_context_states[PyIndex(socket_context_states, SOCKET_MIN_CTX_ID)].rings
          = <<ModemSocketRing(SOCKET_MIN_CTX_ID, 5, ""),
              ModemSocketRing(SOCKET_MIN_CTX_ID, 4, "")>>
    /\ Len(cmds) >= 2
    /\ cmds[1].state = COMPLETED
    /\ active = 2

\* C27: the command of a coap_send called without a length is
\* 'AT+SQNCOAPSEND=<ctx_id>,<m_type>,<method>,<length>' with, as its
\* length, the number of bytes handed over for transmission: 0 when there
\* is no data, the number of bytes of the UTF-8 encoding for a string.
C27_AutoLength ==
    \A c \in Ids :
       cmds[c].op = "coap_send"
         => /\ cmds[c].at_cmd = <<"AT+SQNCOAPSEND=", cmds[c].ctx_id, CON, GET,
                                  Len(PayloadBytes(cmds[c].data))>>
            /\ cmds[c].data.type \in {"None", "bytes"}

\* the payload of a coap_send given a string of two characters was written
\* after the prompt: four bytes, the length its command declared
C27_Witness ==
    \E c \in Ids :
       /\ cmds[c].op = "coap_send"
       /\ cmds[c].state = COMPLETED
       /\ PayloadBytes(cmds[c].data) = <<97, 226, 130, 172>>
       /\ cmds[c].at_cmd[5] = 4
       /\ \E i \in DOMAIN tx : tx[i] = <<"data", c>>

\* C28: for a socket id of 1..6, the handler of '+SQNSH: <id>' runs and
\* leaves that socket's entry not connected and every other entry as it
\* was, and the handler of '+SQNSRING: <id>,<length>[,<data>]' runs and
\* appends one record with that id, length and data to the rings of one
\* entry, leaving every other entry as it was.
C28_SocketUrcEffect ==
    [][\A l \in SockUrcLines :
          DispatchUrc(l) =>
             /\ ~HandlerRaises(l)
             /\ \E p \in DOMAIN socket_context_states :
                   /\ \A q \in DOMAIN socket_context_states \ {p} :
                         socket_context_states'[q] = socket_context_states[q]
                   /\ IF l.pfx = P_SQNSH
                      THEN socket_context_states'[p] =
                              [socket_context_states[p] EXCEPT !.connected = FALSE]
                      ELSE socket_context_states'[p] =
                              [socket_context_states[p] EXCEPT
                                  !.rings = Append(@, ModemSocketRing(l.id, l.n, l.s))]]_vars

C30_CallerLeavesTokenizer ==
    [][\A length \in ChunkLengths :
          (/\ active # 0
           /\ coap_receive_data(COAP_MAX_CTX_ID, length, COAP_MAX_BYTES_LENGTH,
                                TRUE))
            => raw_chunk_size' = raw_chunk_size]_vars

\* C31: a write failure while a command is being sent gives that command
\* the ERROR result (it ends FAILED and its caller gets False) and touches no
\* other command: every other command record is as it was, the commands
\* queued behind it stay queued in their order, nothing is written, the
\* mirrors are as they were, and the executor is free to start the next
\* queued command.
C31_WriteFailureLocal ==
    [][\A c \in Ids :
          (cmds[c].term # "write" /\ cmds'[c].term = "write")
            => /\ cmds[c].state = PENDING
               /\ queue # <<>> /\ Head(queue) = c
               /\ cmds'[c].state = FAILED
               /\ cmds'[c].result = ERROR
               /\ ret' = Outcome(cmds[c], ERROR)
               /\ ret'.val = "False"
               /\ \A d \in Ids \ {c} : cmds'[d] = cmds[d]
               /\ queue' = Tail(queue)
               /\ tx' = tx
               /\ active' = 0
               /\ (queue' # <<>> => StartGuard')
               /\ UNCHANGED <<coap_context_states, socket_context_states,
                              _socket_list>>]_vars

\* the write of a command failed while another was queued behind it, and
\* that one was then started and completed with OK
C31_Witness ==
    \E c, d \in Ids :
       /\ c < d
       /\ cmds[c].state = FAILED /\ cmds[c].term = "write"
       /\ cmds[d].state = COMPLETED /\ cmds[d].result = OK
       /\ \E i \in CmdWrites : tx[i][2] = d
       /\ \A i \in CmdWrites : tx[i][2] # c

\* C32: whenever a receive command is the active one, its response being
\* tokenized, the raw chunk size in force is the min(length, max_bytes) that
\* this command declared, whatever other receive commands were submitted
\* before or after it.
C32_ChunkOfActive ==
    \A c \in Ids :
       (active = c /\ cmds[c].op = "coap_receive_data"
                   /\ cmds[c].state = AWAITING_TERMINAL)
         => raw_chunk_size = cmds[c].chunk

\* C33: for every coap_send and socket_send that passed validation, the
\* length its command text declares is the number of payload bytes the
\* command hands over to be written after the prompt, also when the caller
\* gave the length and when the data is a string of multi-byte characters.
C33_DeclaredIsWritten ==
    \A c \in Ids :
       /\ (cmds[c].op = "coap_send" /\ DataWrites(c) # {})
            => cmds[c].at_cmd[5] = Len(PayloadBytes(cmds[c].data))
       /\ (cmds[c].op = "socket_send" /\ DataWrites(c) # {})
            => cmds[c].at_cmd[3] = Len(PayloadBytes(cmds[c].data))

\* C39: the command written for a socket_send called without remote_addr
\* and remote_port has both its remote-address and its remote-port field
\* empty ('AT+SQNSSENDEXT=<ctx_id>,<length>,<rai>,,'): no text standing for
\* a missing value is sent to the modem.
C39_EmptyRemoteFields ==
    \A c \in Ids :
       (cmds[c].op = "socket_send" /\ TextWrites(c) # {})
         => /\ cmds[c].at_cmd[1] = "AT+SQNSSENDEXT="
            /\ cmds[c].at_cmd[5] = ""
            /\ cmds[c].at_cmd[6] = ""

\* The valid socket identifiers, and whether each of them is in use
SocketIds == SOCKET_MIN_CTX_ID..SOCKET_MAX_CTX_ID
AllInUse ==
    \A p \in DOMAIN _socket_list :
       _socket_list[p].id \in SocketIds => _socket_list[p].state # FREE

\* C34: socket_create reserves and reports only socket identifiers of
\* 1..6: no socket with an identifier outside that range is ever RESERVED
\* or CREATED or named in the outcome of a socket_create, and a call made
\* when every socket of 1..6 is in use returns False at once with
\* NO_FREE_SOCKET and reserves nothing.
C34_CreateInRange ==
    /\ [](\A p \in DOMAIN _socket_list :
            _socket_list[p].state # FREE => _socket_list[p].id \in SocketIds)
    /\ [](\A c \in Ids : cmds[c].op = "socket_create" => cmds[c].ctx_id \in SocketIds)
    /\ [][(AllInUse /\ socket_create(PDP_DEFAULT_CTX_ID, TRUE))
            => /\ ret' = Reject("socket_create", 0, TRUE, NO_FREE_SOCKET)
               /\ UNCHANGED <<cmds, queue, _socket_list>>]_vars

\* C35: socket slots are not leaked: when a socket_create command ends
\* FAILED or TIMED_OUT the socket it reserved is FREE again, and when a
\* socket_close command ends COMPLETED the socket it names is FREE again, so
\* that a later socket_create can take it.
C35_SlotsReturn ==
    [][\A c \in Ids :
          (cmds[c].state \notin Terminal /\ cmds'[c].state \in Terminal)
            => /\ (cmds[c].op = "socket_create"
                     /\ cmds'[c].state \in {FAILED, TIMED_OUT})
                    => _socket_list'[cmds[c].arg].state = FREE
               /\ (cmds[c].op = "socket_close" /\ cmds'[c].state = COMPLETED)
                    => \A p \in DOMAIN _socket_list' :
                          _socket_list'[p].id = cmds[c].ctx_id
                             => _socket_list'[p].state = FREE]_vars

\* C36: with socket_create calls made at any moment, also while earlier
\* ones are queued or mid-flight, a call reserves a socket that was FREE and
\* reserves that one only, no two socket_create commands hold the same
\* socket, and when a command ends the socket_id its caller gets and, on OK,
\* the one socket that becomes CREATED are the socket this call reserved;
\* on another result no socket changes.
C36_OwnSocket ==
    /\ [](\A c, d \in Ids :
            (c # d /\ cmds[c].op = "socket_create" /\ cmds[d].op = "socket_create")
              => /\ cmds[c].arg # cmds[d].arg
                 /\ cmds[c].ctx_id # cmds[d].ctx_id)
    /\ [](\A c \in Ids :
            cmds[c].op = "socket_create"
              => /\ cmds[c].arg \in DOMAIN _socket_list
                 /\ _socket_list[cmds[c].arg].id = cmds[c].ctx_id
                 /\ _socket_list[cmds[c].arg].state =
                       IF cmds[c].state = COMPLETED THEN CREATED ELSE RESERVED)
    /\ [][\A p \in DOMAIN _socket_list :
            _socket_list'[p] # _socket_list[p]
              => /\ \A q \in DOMAIN _socket_list \ {p} :
                       _socket_list'[q] = _socket_list[q]
                 /\ \/ /\ _socket_list[p].state = FREE
                       /\ _socket_list'[p].state = RESERVED
                       /\ ret'.op = "socket_create"
                       /\ ret'.ctx_id = _socket_list[p].id
                    \/ /\ _socket_list[p].state = RESERVED
                       /\ _socket_list'[p].state = CREATED
                       /\ active # 0 /\ cmds[active].arg = p
                       /\ ret' = Outcome(cmds[active], OK)
                       /\ ret'.ctx_id = _socket_list[p].id]_vars

\* two socket_create commands held sockets 1 and 2 at once: the first has
\* just completed, its caller is told socket 1 and socket 1 is CREATED, while
\* the second is still queued and socket 2, the socket in use, is RESERVED
C36_Witness ==
    /\ Len(cmds) >= 2
    /\ cmds[1].op = "socket_create" /\ cmds[1].state = COMPLETED
    /\ cmds[2].op = "socket_create" /\ cmds[2].state = PENDING
    /\ _socket_list[1].state = CREATED
    /\ _socket_list[2].state = RESERVED
    /\ _socket = 2
    /\ ret = Outcome(cmds[1], OK) /\ ret.ctx_id = 1

\* C37: the state of a socket changes only from FREE to RESERVED, from
\* RESERVED to CREATED and from CREATED to OPENED; it becomes OPENED only
\* when a socket_connect command for it completes with OK, and a command
\* that ends with another result changes the state of no socket.
C37_SocketLifecycle ==
    [][/\ \A p \in DOMAIN _socket_list :
            _socket_list'[p].state # _socket_list[p].state
              => \/ /\ _socket_list[p].state = FREE
                    /\ _socket_list'[p].state = RESERVED
                 \/ /\ _socket_list[p].state = RESERVED
                    /\ _socket_list'[p].state = CREATED
                 \/ /\ _socket_list[p].state = CREATED
                    /\ _socket_list'[p].state = OPENED
                    /\ active # 0
                    /\ cmds[active].op = "socket_connect"
                    /\ cmds[active].arg = p
                    /\ cmds'[active].state = COMPLETED
                    /\ cmds'[active].result = OK
       /\ \A c \in Ids :
            (cmds[c].state \notin Terminal
               /\ cmds'[c].state \in {FAILED, TIMED_OUT})
              => \A p \in DOMAIN _socket_list :
                    _socket_list'[p].state = _socket_list[p].state]_vars

\* Whether socket_connect completed with OK for the socket with this id,
\* with accept_any_remote REMOTE_RX_AND_TX
ConnectedAnyRemote(id) ==
    \E p \in DOMAIN _socket_list :
       /\ _socket_list[p].id = id
       /\ _socket_list[p].state = OPENED
       /\ _socket_list[p].accept_any_remote = REMOTE_RX_AND_TX

\* C38: socket_send with a remote address and port is rejected with ERROR
\* exactly when the socket was not connected with accept_any_remote
\* REMOTE_RX_AND_TX: before that it returns False with ERROR at once, and
\* once socket_connect has succeeded for the socket with REMOTE_RX_AND_TX
\* the call passes validation and its command is handed to the engine.
C38_RemoteAccepted ==
    [][socket_send(SOCKET_MIN_CTX_ID, OneByte, <<>>, <<RemoteHost>>,
                   <<ConnectPort>>, TRUE)
         => IF ConnectedAnyRemote(SOCKET_MIN_CTX_ID)
            THEN ret'.val \in {"await", QUEUE_FULL}
            ELSE /\ ret' = Reject("socket_send", SOCKET_MIN_CTX_ID, TRUE, ERROR)
                 /\ UNCHANGED <<cmds, queue>>]_vars

====
